---- MODULE Spec2Model ----
(***************************************************************************)
(* A model of the LinkedIn jobs scraper (src/index.js): the identifier     *)
(* resolver (extractNumericId / stringToHash), listing-card parsing        *)
(* (parseJobElement), and the search / detail / company-profile            *)
(* orchestration around the shared response cache.                         *)
(*                                                                         *)
(* Strings are sequences of one-character strings.  JavaScript's null and  *)
(* undefined are the value NULL.                                           *)
(***************************************************************************)
EXTENDS Integers, Sequences, FiniteSets, TLC

\* ------------------------------------------------------------------------
\* Bounds of the model
\* ------------------------------------------------------------------------

\* Number of text pieces an identifier-resolver input pair (candidate and
\* permalink together) is assembled from.
MaxPieces == 4

\* ------------------------------------------------------------------------
\* Strings
\* ------------------------------------------------------------------------

NULL == <<"null">>

Digits == {"0", "1", "2", "3", "4", "5", "6", "7", "8", "9"}

DigitChars == <<"0", "1", "2", "3", "4", "5", "6", "7", "8", "9">>

Whitespace == {" ", "\t", "\n"}

\* String.prototype.charCodeAt for the characters the model's strings use.
charCode ==
    ("0" :> 48) @@ ("1" :> 49) @@ ("2" :> 50) @@ ("3" :> 51) @@ ("4" :> 52) @@
    ("5" :> 53) @@ ("6" :> 54) @@ ("7" :> 55) @@ ("8" :> 56) @@ ("9" :> 57) @@
    ("\t" :> 9) @@ ("\n" :> 10) @@ (" " :> 32) @@ ("-" :> 45) @@ ("." :> 46) @@
    ("/" :> 47) @@ (":" :> 58) @@ ("=" :> 61) @@ ("?" :> 63) @@ ("I" :> 73) @@
    ("a" :> 97) @@ ("b" :> 98) @@ ("c" :> 99) @@ ("d" :> 100) @@ ("e" :> 101) @@
    ("f" :> 102) @@ ("h" :> 104) @@ ("i" :> 105) @@ ("j" :> 106) @@
    ("k" :> 107) @@ ("l" :> 108) @@ ("m" :> 109) @@ ("n" :> 110) @@
    ("o" :> 111) @@ ("p" :> 112) @@ ("s" :> 115) @@ ("t" :> 116) @@
    ("v" :> 118) @@ ("w" :> 119)

IsDigit(c) == c \in Digits

\* JavaScript truthiness of a string-or-null value.
Truthy(x) == x # NULL /\ x # <<>>

SetMin(S) == CHOOSE x \in S : \A y \in S : x <= y

SetMax(S) == CHOOSE x \in S : \A y \in S : x >= y

\* The literal lit occurs in s at position i.
HasLit(s, i, lit) ==
    /\ i + Len(lit) - 1 <= Len(s)
    /\ \A k \in 1..Len(lit) : s[i + k - 1] = lit[k]

startsWith(s, lit) == HasLit(s, 1, lit)

includes(s, lit) == \E i \in 1..Len(s) : HasLit(s, i, lit)

\* Last position of the maximal digit run that starts at i (s[i] is a digit):
\* what a greedy \d+ consumes.
RunEnd(s, i) ==
    CHOOSE j \in i..Len(s) :
        /\ \A k \in i..j : IsDigit(s[k])
        /\ (j = Len(s) \/ ~IsDigit(s[j + 1]))

DigitRun(s, i) == SubSeq(s, i, RunEnd(s, i))

RECURSIVE Flatten(_)
Flatten(ss) == IF ss = <<>> THEN <<>> ELSE Head(ss) \o Flatten(Tail(ss))

\* ------------------------------------------------------------------------
\* cleanText (src/index.js:633)
\* ------------------------------------------------------------------------

\* text.trim(): drop leading and trailing whitespace.
trim(s) ==
    LET keep == {i \in 1..Len(s) : s[i] \notin Whitespace}
    IN  IF keep = {} THEN <<>> ELSE SubSeq(s, SetMin(keep), SetMax(keep))

\* .replace(/\s+/g, ' '): every maximal whitespace run becomes one space.
RECURSIVE collapseWhitespace(_)
collapseWhitespace(s) ==
    IF s = <<>> THEN <<>>
    ELSE IF Head(s) \in Whitespace
         THEN IF Len(s) > 1 /\ s[2] \in Whitespace
              THEN collapseWhitespace(Tail(s))
              ELSE <<" ">> \o collapseWhitespace(Tail(s))
         ELSE <<Head(s)>> \o collapseWhitespace(Tail(s))

\* Values that are no strings and not null: a number other than 0 and an
\* object, each a one-element sequence no string is (a string holds
\* one-character elements).
NonStrings == { <<"number">>, <<"object">> }

\* typeof x === 'string'
IsString(x) == x # NULL /\ x \notin NonStrings

\* Mutant of cleanText: the text is trimmed, its inner whitespace is kept.
cleanTextTrimOnly(text) ==
    IF ~Truthy(text) \/ ~IsString(text) THEN NULL
    ELSE IF trim(text) = <<>> THEN NULL ELSE trim(text)

\* if (!text || typeof text !== 'string') return null;
\* const cleaned = text.trim().replace(/\s+/g, ' '); return cleaned || null
cleanText(text) ==
    IF ~Truthy(text) \/ ~IsString(text) THEN NULL
    ELSE LET cleaned == collapseWhitespace(trim(text))
         IN  IF cleaned = <<>> THEN NULL ELSE cleaned

\* ------------------------------------------------------------------------
\* stringToHash (src/index.js:623): a signed 32-bit integer is held as its
\* two 16-bit halves <<hi, lo>> (two's complement), so that no intermediate
\* value leaves the range of the model checker's integers.
\* ------------------------------------------------------------------------

Half == 65536

\* hash << 5
Shl5(h) ==
    LET lo32 == h[2] * 32
    IN  <<(h[1] * 32 + (lo32 \div Half)) % Half, lo32 % Half>>

\* a - b, wrapped to 32 bits
Sub32(a, b) ==
    LET lo == a[2] - b[2]
        borrow == IF lo < 0 THEN 1 ELSE 0
    IN  <<(a[1] - b[1] - borrow + 2 * Half) % Half, lo + borrow * Half>>

\* a + c for a character code c, wrapped to 32 bits
Add32(a, c) ==
    LET lo == a[2] + c
    IN  <<(a[1] + (lo \div Half)) % Half, lo % Half>>

IsNegative32(h) == h[1] >= 32768

\* Math.abs of a 32-bit value: the magnitude, at most 2^31.
MathAbs(h) == IF IsNegative32(h) THEN Sub32(<<0, 0>>, h) ELSE h

\* Mutant of HashStep: the shifted value is added to, not reduced by, the
\* hash (a multiplier of 33).
HashStepTimes33(h, c) == Add32(Sub32(Shl5(h), Sub32(<<0, 0>>, h)), c)

\* hash = ((hash << 5) - hash) + char; hash = hash & hash
HashStep(h, c) == Add32(Sub32(Shl5(h), h), c)

\* A 32-bit integer in the two-halves form.
IsInt32(h) == h[1] \in 0..(Half - 1) /\ h[2] \in 0..(Half - 1)

\* The for loop from character i on, hash being the value so far (a 32-bit
\* integer after every step).
RECURSIVE HashLoop(_, _, _)
HashLoop(str, i, hash) ==
    IF i > Len(str) THEN hash
    ELSE LET next == HashStep(hash, charCode[str[i]])
         IN  CASE IsInt32(next) -> HashLoop(str, i + 1, next)

stringToHash(str) == MathAbs(HashLoop(str, 1, <<0, 0>>))

\* Number.prototype.toString() of a magnitude held as <<hi, lo>>.
RECURSIVE toString(_)
toString(h) ==
    LET qh == h[1] \div 10
        t == (h[1] % 10) * Half + h[2]
        q == <<qh, t \div 10>>
        d == <<DigitChars[(t % 10) + 1]>>
    IN  IF q = <<0, 0>> THEN d ELSE toString(q) \o d

substring(s, from, to) ==
    SubSeq(s, from + 1, IF to < Len(s) THEN to ELSE Len(s))

\* Length the fallback identifier is cut to.
FallbackIdLength == 10

fallbackId(str) ==
    substring(toString(MathAbs(stringToHash(str))), 0, FallbackIdLength)

\* ------------------------------------------------------------------------
\* extractNumericId (src/index.js:565)
\* ------------------------------------------------------------------------

JobsView == <<"j", "o", "b", "s", "/", "v", "i", "e", "w", "/">>

JobIdParam == <<"j", "o", "b", "I", "d", "=">>

\* Positions d of a "-" that /jobs\/view\/[^\/]*-(\d+)/ can match when the
\* text after "jobs/view/" starts at j0: no "/" from j0 up to d, a digit next.
DashPositions(s, j0) ==
    {d \in j0..(Len(s) - 1) :
        /\ s[d] = "-"
        /\ IsDigit(s[d + 1])
        /\ \A k \in j0..d : s[k] # "/"}

\* str.match(/jobs\/view\/[^\/]*-(\d+)/): the leftmost match; [^\/]* is
\* greedy, so the capture follows the last "-" the pattern can use.
urlMatch(s) ==
    LET starts == {i \in 1..Len(s) :
                      /\ HasLit(s, i, JobsView)
                      /\ DashPositions(s, i + Len(JobsView)) # {}}
    IN  IF starts = {} THEN NULL
        ELSE LET i == SetMin(starts)
                 d == SetMax(DashPositions(s, i + Len(JobsView)))
             IN  DigitRun(s, d + 1)

\* str.match(/<lit>(\d+)/) for a literal prefix lit.
LitDigitsMatch(s, lit) ==
    LET starts == {i \in 1..Len(s) :
                      /\ HasLit(s, i, lit)
                      /\ i + Len(lit) <= Len(s)
                      /\ IsDigit(s[i + Len(lit)])}
    IN  IF starts = {} THEN NULL
        ELSE DigitRun(s, SetMin(starts) + Len(lit))

\* str.match(/jobs\/view\/(\d+)/)
directUrlMatch(s) == LitDigitsMatch(s, JobsView)

\* str.match(/jobId=(\d+)/)
jobIdMatch(s) == LitDigitsMatch(s, JobIdParam)

\* str.match(/\/(\d+)(?:\?|$)/): a "/" and a digit run that reaches a "?" or
\* the end of the string.
trailingDigitsMatch(s) ==
    LET starts == {i \in 1..(Len(s) - 1) :
                      /\ s[i] = "/"
                      /\ IsDigit(s[i + 1])
                      /\ LET e == RunEnd(s, i + 1)
                         IN  e = Len(s) \/ s[e + 1] = "?"}
    IN  IF starts = {} THEN NULL
        ELSE DigitRun(s, SetMin(starts) + 1)

\* Mutant of urlPatterns: the jobId= pattern is tried first.
urlPatternsJobIdFirst(s) ==
    <<jobIdMatch(s), urlMatch(s), directUrlMatch(s), trailingDigitsMatch(s)>>

\* The urlPatterns array, in its order.
urlPatterns(s) ==
    <<urlMatch(s), directUrlMatch(s), jobIdMatch(s), trailingDigitsMatch(s)>>

\* The for loop over urlPatterns: the capture of the first pattern that
\* matches, or NULL.
firstUrlPattern(s) ==
    LET ms == urlPatterns(s)
        hit == {k \in 1..Len(ms) : ms[k] # NULL}
    IN  IF hit = {} THEN NULL ELSE ms[SetMin(hit)]

\* Shortest pure number that is returned as it is.
MinIdDigits == 5

\* Mutant of isPureNumericId: the pattern without its anchors, /\d{5,}/.
isPureNumericIdUnanchored(s) ==
    \E i \in 1..Len(s) :
        /\ i + MinIdDigits - 1 <= Len(s)
        /\ \A k \in i..(i + MinIdDigits - 1) : IsDigit(s[k])

\* Mutant of isPureNumericId: any length of digits passes, /^\d+$/.
isPureNumericIdAnyLength(s) ==
    /\ Len(s) >= 1
    /\ \A k \in 1..Len(s) : IsDigit(s[k])

\* /^\d{5,}$/.test(str)
isPureNumericId(s) ==
    /\ Len(s) >= MinIdDigits
    /\ \A k \in 1..Len(s) : IsDigit(s[k])

\* str.match(/\d+/g): the maximal digit runs, left to right.
allNumbers(s) ==
    LET begins == {i \in 1..Len(s) :
                      IsDigit(s[i]) /\ (i = 1 \/ ~IsDigit(s[i - 1]))}
        RECURSIVE runs(_)
        runs(B) == IF B = {} THEN <<>>
                   ELSE LET i == SetMin(B)
                        IN  <<DigitRun(s, i)>> \o runs(B \ {i})
    IN  runs(begins)

\* Mutant of fromCandidate: the first number is taken, not the last.
fromCandidateFirstNumber(str) ==
    IF isPureNumericId(str) THEN str
    ELSE LET nums == allNumbers(str)
         IN  IF Len(nums) > 0 /\ Len(nums[1]) >= MinIdDigits
             THEN nums[1]
             ELSE fallbackId(str)

\* Priorities 3 to 5: the candidate itself, its last number, the hash.
fromCandidate(str) ==
    IF isPureNumericId(str) THEN str
    ELSE LET nums == allNumbers(str)
         IN  IF Len(nums) > 0 /\ Len(nums[Len(nums)]) >= MinIdDigits
             THEN nums[Len(nums)]
             ELSE fallbackId(str)

\* Priority 1: the two job-view patterns on the job link.
fromJobLink(link) ==
    IF ~Truthy(link) THEN NULL
    ELSE LET m == urlMatch(link)
         IN  IF m # NULL THEN m ELSE directUrlMatch(link)

\* Mutant of extractNumericId: the job link is ignored (the candidate alone
\* decides, as before the job link became the first priority).
extractNumericIdCandidateOnly(str, link) ==
    IF ~Truthy(str) THEN NULL
    ELSE LET urlId == firstUrlPattern(str)
         IN  IF urlId # NULL THEN urlId ELSE fromCandidate(str)

extractNumericId(str, link) ==
    IF ~Truthy(str) THEN NULL
    ELSE LET linkId == fromJobLink(link)
         IN  IF linkId # NULL THEN linkId
             ELSE LET urlId == firstUrlPattern(str)
                  IN  IF urlId # NULL THEN urlId ELSE fromCandidate(str)

\* ------------------------------------------------------------------------
\* The identifier resolver as a state machine: one candidate / permalink
\* pair per behaviour, resolved directly (ExtractNumericId), through a
\* listing card (ParseJobElement), and again by the detail stage
\* (GetJobDetailsId).
\* ------------------------------------------------------------------------

VARIABLES
    attrId,        \* the raw candidate: a card's data-id attribute ("" if none)
    href,          \* the raw permalink: a card's link href, or NULL
    op,            \* the operation that ran last
    input,         \* first argument of the latest extractNumericId call
    jobLink,       \* its second argument
    numericId,     \* its result
    numericJobId,  \* getJobDetails' resolution of the id the listing returned
    site,          \* the listing page LinkedIn serves: a sequence of cards
    cache,         \* the NodeCache instance: cache key -> stored value
    pc,            \* where the request being served is waiting
    args,          \* the arguments of the request being served
    jobs,          \* the job records the request being served has built
    tasks,         \* its company-profile fetches, one per job record
    response,      \* what the last completed request returned or threw
    calls,         \* number of requests started
    document,      \* what an extractor is applied to: an element's text, html
    extractor,     \* the extractor that ran last
    extracted,     \* what it returned
    apiKeyRateLimit, \* the rate limiter's Map: client key -> count, resetTime
    now,           \* Date.now()
    passed,        \* per client key, the times of the requests passed on
    answer,        \* what the rate limiter did with the last request
    retries,       \* fetchWithRetry's retries parameter
    loopIndex,     \* its loop variable i
    fetchPc,       \* where the fetchWithRetry call is
    log            \* what the call has done so far, in order

rvars == <<attrId, href, op, input, jobLink, numericId, numericJobId>>

svars == <<site, cache, pc, args, jobs, tasks, response, calls>>

evars == <<document, extractor, extracted>>

lvars == <<apiKeyRateLimit, now, passed, answer>>

fvars == <<retries, loopIndex, fetchPc, log>>

vars == <<rvars, svars, evars, lvars, fvars>>

LinkedInBase ==
    <<"h", "t", "t", "p", "s", ":", "/", "/", "w", "w", "w", ".",
      "l", "i", "n", "k", "e", "d", "i", "n", ".", "c", "o", "m">>

Http == <<"h", "t", "t", "p">>

\* The text pieces inputs are assembled from.
Pieces ==
    { JobsView, JobIdParam, Http,
      <<"/">>, <<"?">>, <<"-">>, <<"7">>,
      <<"1", "0", "0", "2", "3">> }

\* uuidv4() yields some non-empty string of hexadecimal digits and hyphens.
UuidPieces == { <<"a">>, <<"-">>, <<"7">>, <<"1", "0", "0", "2", "3">> }

MaxUuidPieces == 1

Uuids ==
    UNION { { Flatten(ps) : ps \in [1..n -> UuidPieces] } : n \in 1..MaxUuidPieces }

OrNull(s) == IF s = <<>> THEN NULL ELSE s

EmptyCache == [k \in {} |-> NULL]

NoArgs == [kind |-> "none"]

NoResponse == [kind |-> "none"]

\* The scraper before any request: nothing cached, nothing in flight.
ScraperAtRest ==
    /\ site = <<>>
    /\ cache = EmptyCache
    /\ pc = "idle"
    /\ args = NoArgs
    /\ jobs = <<>>
    /\ tasks = <<>>
    /\ response = NoResponse
    /\ calls = 0

\* The resolver's variables while the scraper's requests are explored.
ResolverAtRest ==
    /\ attrId = <<>>
    /\ href = NULL
    /\ op = "init"
    /\ input = NULL
    /\ jobLink = NULL
    /\ numericId = NULL
    /\ numericJobId = NULL

\* fetchWithRetry's variables while it is not called.
FetchAtRest ==
    /\ retries = 0
    /\ loopIndex = 0
    /\ fetchPc = "idle"
    /\ log = <<>>

\* The rate limiter's variables while no request arrives.
LimiterAtRest ==
    /\ apiKeyRateLimit = <<>>
    /\ now = 0
    /\ passed = <<>>
    /\ answer = [status |-> "none"]

\* The extractors' variables while nothing is extracted.
ExtractorAtRest ==
    /\ document = NULL
    /\ extractor = "init"
    /\ extracted = NULL

InitResolve ==
    /\ \E n \in 0..MaxPieces :
         \E ps \in [1..n -> Pieces] :
           \E k \in 0..n :
             /\ attrId = Flatten(SubSeq(ps, 1, k))
             /\ href = OrNull(Flatten(SubSeq(ps, k + 1, n)))
    /\ op = "init"
    /\ input = NULL
    /\ jobLink = NULL
    /\ numericId = NULL
    /\ numericJobId = NULL
    /\ ScraperAtRest
    /\ ExtractorAtRest
    /\ LimiterAtRest
    /\ FetchAtRest

\* A direct call extractNumericId(attrId, href).
ExtractNumericId ==
    /\ op = "init"
    /\ input' = attrId
    /\ jobLink' = href
    /\ numericId' = extractNumericId(attrId, href)
    /\ op' = "extractNumericId"
    /\ UNCHANGED <<attrId, href, numericJobId, svars, evars, lvars, fvars>>

\* parseJobElement's link: cleaned, and made absolute.
absoluteJobLink(rawLink) ==
    LET link == cleanText(rawLink)
    IN  IF Truthy(link) /\ ~startsWith(link, Http)
        THEN LinkedInBase \o link
        ELSE link

\* Mutant of rawIdOf: no generated UUID when attribute and link are missing.
rawIdNoUuid(dataId, link, uuid) ==
    IF Truthy(dataId) THEN dataId ELSE link

\* const rawId = $element.attr('data-id') || jobLink || uuidv4()
rawIdOf(dataId, link, uuid) ==
    IF Truthy(dataId) THEN dataId
    ELSE IF Truthy(link) THEN link
    ELSE uuid

\* The id part of parseJobElement on a card with data-id attrId and link href.
ParseJobElement ==
    /\ op = "init"
    /\ LET link == absoluteJobLink(href)
       IN  \E uuid \in (IF Truthy(attrId) \/ Truthy(link)
                        THEN {NULL} ELSE Uuids) :
             LET rawId == rawIdOf(attrId, link, uuid)
             IN  /\ input' = rawId
                 /\ jobLink' = link
                 /\ numericId' = extractNumericId(rawId, link)
    /\ op' = "parseJobElement"
    /\ UNCHANGED <<attrId, href, numericJobId, svars, evars, lvars, fvars>>

\* getJobDetails(jobId) for the id a listing card got: the id is resolved
\* again, with no job link; a null result is the 'Invalid Job ID' error.
GetJobDetailsId ==
    /\ op = "parseJobElement"
    /\ LET id == extractNumericId(numericId, NULL)
       IN  /\ numericJobId' = id
           /\ op' = IF Truthy(id) THEN "getJobDetails" ELSE "invalidJobId"
    /\ UNCHANGED <<attrId, href, input, jobLink, numericId, svars, evars, lvars, fvars>>

NextResolve ==
    \/ ExtractNumericId
    \/ ParseJobElement
    \/ GetJobDetailsId

SpecResolve == InitResolve /\ [][NextResolve]_vars

\* ------------------------------------------------------------------------
\* The scraper: searchJobs (src/index.js:735), getJobDetails (816), the
\* company route (1204) and fetchCompanyProfile (380), over the shared
\* cache (55).  One request is served at a time; the company-profile
\* fetches of one search are in flight together and complete in any order.
\* ------------------------------------------------------------------------

\* null where the code holds an object or null (a return value, a lookup).
NullObject == [null |-> TRUE]

DEFAULT_RESULTS == 50

Dev == <<"d", "e", "v">>

Acme == <<"a", "c", "m", "e">>

SlugLink == <<"/">> \o JobsView \o Dev \o <<"-", "1", "0", "0", "2", "3">>

CompanyPath == <<"/", "c", "o", "m", "p", "a", "n", "y", "/">>

CompanyLinkA == CompanyPath \o <<"a", "?", "t">>

ProfileLink == <<"/", "i", "n", "/", "x">>

\* What parseJobElement reads from one .base-card element.  The texts it
\* only copies through cleanText (location, date, logo, insights) and the
\* easy-apply marker are left out: no rule reads them.
Card(cls, dataId, title, company, link, companyLink) ==
    [ jobSearchCard |-> cls, dataId |-> dataId, title |-> title,
      company |-> company, link |-> link, companyLink |-> companyLink ]

Cards ==
    { Card(TRUE, <<>>, Dev, Acme, SlugLink, CompanyLinkA),
      Card(TRUE, <<>>, <<" ">> \o Dev \o <<"\n">>, Acme, NULL, ProfileLink),
      Card(TRUE, <<"7">>, Dev, Acme, NULL, NULL),
      Card(TRUE, <<"7">>, <<" ">>, Acme, SlugLink, CompanyLinkA),
      Card(TRUE, <<"7">>, Dev, <<>>, SlugLink, CompanyLinkA),
      Card(FALSE, <<"7">>, Dev, Acme, SlugLink, CompanyLinkA) }

MaxCards == 2

\* The listing pages LinkedIn may serve: the .base-card elements in order.
Pages == UNION { [1..n -> Cards] : n \in 0..MaxCards }

\* cleanedCompanyLink.split('?')[0]
splitAtQuery(s) ==
    LET marks == {i \in 1..Len(s) : s[i] = "?"}
    IN  IF marks = {} THEN s ELSE SubSeq(s, 1, SetMin(marks) - 1)

cleanedCompanyLink(rawCompanyLink) ==
    LET link == cleanText(rawCompanyLink)
    IN  IF Truthy(link) /\ includes(link, <<"?">>)
        THEN splitAtQuery(link)
        ELSE link

\* uuidv4() is evaluated only when data-id and link are both missing.
needsUuid(card) ==
    /\ card.jobSearchCard
    /\ ~Truthy(card.dataId)
    /\ ~Truthy(absoluteJobLink(card.link))

\* The values uuidv4() may take while the cards of a page are parsed: one
\* per card that needs one, NULL for the others.
RECURSIVE uuidsFor(_)
uuidsFor(page) ==
    IF page = <<>> THEN { <<>> }
    ELSE { <<uuid>> \o rest :
             uuid \in (IF needsUuid(Head(page)) THEN Uuids ELSE {NULL}),
             rest \in uuidsFor(Tail(page)) }

parseJobElement(card, uuid) ==
    LET link == absoluteJobLink(card.link)
        rawId == rawIdOf(card.dataId, link, uuid)
    IN  [ id |-> extractNumericId(rawId, link),
          title |-> cleanText(card.title),
          company |-> cleanText(card.company),
          link |-> link,
          companyLink |-> cleanedCompanyLink(card.companyLink) ]

\* Mutant of accepted: a record is kept on its title and id alone.
acceptedWithoutCompany(job) == Truthy(job.title) /\ Truthy(job.id)

\* if (job.title && job.company && job.id)
accepted(job) == Truthy(job.title) /\ Truthy(job.company) /\ Truthy(job.id)

\* The accepted records of the job-search cards from..to of the page,
\* in document order (the range is halved to keep the evaluation of a
\* long page shallow).
RECURSIVE jobElementsIn(_, _, _, _)
jobElementsIn(page, uuids, from, to) ==
    IF from > to THEN <<>>
    ELSE IF from = to
         THEN IF page[from].jobSearchCard
              THEN LET job == parseJobElement(page[from], uuids[from])
                   IN  IF accepted(job) THEN <<job>> ELSE <<>>
              ELSE <<>>
         ELSE LET mid == (from + to) \div 2
              IN  jobElementsIn(page, uuids, from, mid)
                      \o jobElementsIn(page, uuids, mid + 1, to)

\* jobElements.each(...): the accepted records of the job-search cards,
\* in document order.
eachJobElement(page, uuids, i) == jobElementsIn(page, uuids, i, Len(page))

\* Mutant of slice: one element more.
sliceThrough(s, end) == SubSeq(s, 1, IF end + 1 < Len(s) THEN end + 1 ELSE Len(s))

\* Array.prototype.slice(0, end)
slice(s, end) == SubSeq(s, 1, IF end < Len(s) THEN end ELSE Len(s))

\* What fetching and parsing a listing can give: the page served, and the
\* records kept of it, cut at DEFAULT_RESULTS.
Listings ==
    UNION { { [ page |-> page,
                jobs |-> slice(eachJobElement(page, uuids, 1), DEFAULT_RESULTS) ] :
              uuids \in uuidsFor(page) } : page \in Pages }

\* The text of true / false in a template string.
boolText(b) ==
    IF b THEN <<"t", "r", "u", "e">> ELSE <<"f", "a", "l", "s", "e">>

\* Mutant of searchKey: the enrichment flag is left out of the key.
searchKeyWithoutEnrich(keywords, location, remote, enrichCompanies) ==
    <<"j", "o", "b", "s", ":">> \o keywords \o <<":">> \o location
        \o <<":">> \o boolText(remote)

\* `jobs:${keywords}:${location}:${remote}:${enrichCompanies}`
searchKey(keywords, location, remote, enrichCompanies) ==
    <<"j", "o", "b", "s", ":">> \o keywords \o <<":">> \o location
        \o <<":">> \o boolText(remote) \o <<":">> \o boolText(enrichCompanies)

\* Mutant of jobKey: the estimate flag is left out of the key.
jobKeyWithoutEstimate(id, enrichCompany, estimateSalary) ==
    <<"j", "o", "b", ":">> \o id \o <<":">> \o boolText(enrichCompany)

\* `job:${numericJobId}:${enrichCompany}:${estimateSalary}`
jobKey(id, enrichCompany, estimateSalary) ==
    <<"j", "o", "b", ":">> \o id \o <<":">> \o boolText(enrichCompany)
        \o <<":">> \o boolText(estimateSalary)

\* `company:${companyUrl}`
companyKey(companyUrl) ==
    <<"c", "o", "m", "p", "a", "n", "y", ":">> \o companyUrl

\* cache.set(key, value)
cacheSet(c, key, value) ==
    [k \in DOMAIN c \cup {key} |-> IF k = key THEN value ELSE c[k]]

\* cache.get on keys: the caches the lookups may leave.  An entry whose TTL
\* (CACHE_TTL) has run out is deleted by the get that finds it; the other
\* entries stay.
expired(c, keys) ==
    { [k \in DOMAIN c \ gone |-> c[k]] : gone \in SUBSET (keys \cap DOMAIN c) }

\* ------------------------------------------------------------------------
\* fetchCompanyProfile (src/index.js:380)
\* ------------------------------------------------------------------------

\* The about-text selectors tried when the page has no about-us section.
AboutSelectors ==
    << ".about-us__description", ".org-about-module__description",
       ".company-about", "[data-test-id=\"about-us\"] p" >>

\* What extractCompanyAbout reads from a page: section is the text of
\* section[data-test-id="about-us"] under 'p, div.core-section-container__content'
\* and alternates[k] the text of the elements AboutSelectors[k] selects
\* (NULL when the page has no such element).
About(section, alternates) == [section |-> section, alternates |-> alternates]

NoAlternates == [k \in 1..Len(AboutSelectors) |-> NULL]

\* What the extractors read from a company page: the about-us elements,
\* the text under the company-size selectors and the text of the
\* Specialties entry (NULL when the page has none).
CompanyPages ==
    { [about |-> About(<<" ">>, [NoAlternates EXCEPT ![3] = <<"x">>]),
       size |-> <<>>, specialties |-> <<" ", ",">>],
      [about |-> About(NULL, [NoAlternates EXCEPT ![1] = <<" ">>, ![2] = <<" ", "x">>]),
       size |-> <<>>, specialties |-> <<"x", ",", " ", "x">>],
      [about |-> About(NULL, NoAlternates),
       size |-> <<"1", ",", "0">>, specialties |-> NULL] }

\* A JavaScript array, apart from null and from strings.
Array(items) == [array |-> items]

\* s.split(sep) for a one-character separator: the pieces between the
\* separators, the empty ones included.
RECURSIVE split(_, _)
split(s, sep) ==
    LET seps == {i \in 1..Len(s) : s[i] = sep}
    IN  IF seps = {} THEN <<s>>
        ELSE <<SubSeq(s, 1, SetMin(seps) - 1)>>
                 \o split(SubSeq(s, SetMin(seps) + 1, Len(s)), sep)

\* .map(s => s.trim())
trimEach(items) == [k \in 1..Len(items) |-> trim(items[k])]

\* .filter(Boolean)
filterBoolean(items) == SelectSeq(items, LAMBDA item : item # <<>>)

\* extractSpecialties on the Specialties entry (NULL: the page has none;
\* else its text): null, or the trimmed non-empty pieces between commas.
extractSpecialties(specialtiesElement) ==
    IF specialtiesElement = NULL THEN NullObject
    ELSE Array(filterBoolean(trimEach(split(trim(specialtiesElement), ","))))

\* const text = ....text().trim(); return text || null
\* extractCompanyAbout: with an about-us section on the page, its trimmed
\* text or null; without one, the trimmed text of the first alternate
\* that has an element with non-empty text, or null.
extractCompanyAbout(about) ==
    IF about.section # NULL THEN OrNull(trim(about.section))
    ELSE LET yielding == {k \in 1..Len(AboutSelectors) :
                             /\ about.alternates[k] # NULL
                             /\ trim(about.alternates[k]) # <<>>}
         IN  IF yielding = {} THEN NULL
             ELSE trim(about.alternates[SetMin(yielding)])

\* (?:,\d+)* after the digit run ending at j: the last position it consumes.
RECURSIVE groupsEnd(_, _)
groupsEnd(s, j) ==
    IF j + 2 <= Len(s) /\ s[j + 1] = "," /\ IsDigit(s[j + 2])
    THEN groupsEnd(s, RunEnd(s, j + 2))
    ELSE j

\* /(\d+(?:,\d+)*(?:\.\d+)?)/ from the digit at i: the last position matched.
countEnd(s, i) ==
    LET j == groupsEnd(s, RunEnd(s, i))
    IN  IF j + 2 <= Len(s) /\ s[j + 1] = "." /\ IsDigit(s[j + 2])
        THEN RunEnd(s, j + 2)
        ELSE j

cleanEmployeeCount(text) ==
    LET starts == {i \in 1..Len(text) : IsDigit(text[i])}
    IN  IF starts = {} THEN text
        ELSE LET i == SetMin(starts)
             IN  SelectSeq(SubSeq(text, i, countEnd(text, i)),
                           LAMBDA c : c # ",")

extractEmployeeCount(page) ==
    LET text == trim(page.size)
    IN  IF text = <<>> THEN NULL ELSE cleanEmployeeCount(text)

\* fullUrl: a relative company link is put under LINKEDIN_BASE_URL.
fullUrl(companyUrl) ==
    IF startsWith(companyUrl, Http) THEN companyUrl
    ELSE LinkedInBase \o companyUrl

\* The companyInfo object, on the fields the caching rule reads, the
\* specialties and the url; headquarters, website, industry, founded and
\* followers are extracted texts that no rule reads.
companyInfo(page, companyUrl) ==
    [ about |-> extractCompanyAbout(page.about),
      employeeCount |-> extractEmployeeCount(page),
      specialties |-> extractSpecialties(page.specialties),
      linkedinUrl |-> fullUrl(companyUrl) ]

\* Mutant of cacheWorthy: every fetched profile is written to the cache.
cacheWorthyAlways(info) == TRUE

\* if (companyInfo.about || companyInfo.employeeCount)
cacheWorthy(info) == Truthy(info.about) \/ Truthy(info.employeeCount)

\* if (!companyUrl || !companyUrl.includes('/company/')) return null
validCompanyUrl(companyUrl) ==
    Truthy(companyUrl) /\ includes(companyUrl, CompanyPath)

\* fetchCompanyProfile up to its request: null for a link that is no
\* company link, the cached profile, or a request in flight.
companyLookup(c, companyUrl) ==
    IF ~validCompanyUrl(companyUrl) THEN [state |-> "null"]
    ELSE IF companyKey(companyUrl) \in DOMAIN c
         THEN [state |-> "profile", value |-> c[companyKey(companyUrl)]]
         ELSE [state |-> "fetching", url |-> companyUrl]

\* job.companyDetails = companyInfo
withCompanyDetails(job, info) == [companyDetails |-> info] @@ job

\* if (job.companyLink) { ... fetchCompanyProfile(job.companyLink) ... }
enrichmentTask(c, job) ==
    IF Truthy(job.companyLink) THEN companyLookup(c, job.companyLink)
    ELSE [state |-> "none"]

\* Mutant of enriched: companyDetails is assigned whatever the fetch
\* returned, null included.
enrichedUnguarded(job, task) ==
    withCompanyDetails(job, IF task.state = "profile" THEN task.value
                            ELSE NullObject)

\* if (companyInfo) { job.companyDetails = companyInfo }
enriched(job, task) ==
    IF task.state = "profile" THEN withCompanyDetails(job, task.value)
    ELSE job

\* ------------------------------------------------------------------------
\* Requests
\* ------------------------------------------------------------------------

MaxCalls == 2

Locations == { <<>> }

Remotes == BOOLEAN

\* Raw job ids a client may send: empty, a bare id, a jobId= parameter.
JobIds ==
    { <<>>, <<"1", "0", "0", "2", "3">>,
      JobIdParam \o <<"1", "0", "0", "2", "3">> }

\* What getJobDetails reads from a job page: the title, the company link,
\* the text of the .salary element (NULL when the page has none) and the
\* html of the description element (NULL when the page has none), and the
\* texts of the skill pills.
JobPages ==
    { [title |-> Dev, companyLink |-> CompanyLinkA, salary |-> NULL,
       description |-> <<"<p>", "a", "</p>", "\n", "<p>", "b", "</p>">>,
       pills |-> << <<" ", "x">>, <<>> >>],
      [title |-> Dev, companyLink |-> NULL, salary |-> <<"$", "5">>,
       description |-> NULL, pills |-> <<>>],
      [title |-> <<>>, companyLink |-> CompanyLinkA, salary |-> NULL,
       description |-> <<>>, pills |-> << <<" ">> >>] }

\* Identifiers a client may send to the company route: a slug, a full URL
\* outside /company/.
CompanyIdentifiers == { <<"a">>, Http \o <<":", "/", "/", "x">> }

\* [\d,]
IsAmountChar(c) == IsDigit(c) \/ c = ","

\* Last position of [\d,]+(?:\.\d{2})? when its [\d,]+ starts at i: the
\* maximal run of digits and commas, and a point with two digits if they
\* follow.
amountEnd(s, i) ==
    LET e == CHOOSE j \in i..Len(s) :
                 /\ \A k \in i..j : IsAmountChar(s[k])
                 /\ (j = Len(s) \/ ~IsAmountChar(s[j + 1]))
    IN  IF e + 3 <= Len(s) /\ s[e + 1] = "." /\ IsDigit(s[e + 2]) /\ IsDigit(s[e + 3])
        THEN e + 3
        ELSE e

\* \s* from position p: the first position at or after p that holds no
\* whitespace (Len(s) + 1 if none).
skipSpace(s, p) ==
    SetMin({q \in p..(Len(s) + 1) : q = Len(s) + 1 \/ s[q] \notin Whitespace})

\* Mutant of dollarMatch: the pattern without its dollar signs, so that
\* any number matches.
dollarMatchNoSymbol(s) ==
    LET starts == {i \in 1..Len(s) : IsAmountChar(s[i])}
    IN  IF starts = {} THEN NullObject
        ELSE [ first |-> SubSeq(s, SetMin(starts), amountEnd(s, SetMin(starts))),
               second |-> NULL ]

\* salaryText.match(/(\$[\d,]+(?:\.\d{2})?)(?:\s*-\s*\$([\d,]+(?:\.\d{2})?))?/):
\* null, or the two groups of the leftmost match (second NULL when the
\* optional part does not match).
dollarMatch(s) ==
    LET starts == {i \in 1..(Len(s) - 1) : s[i] = "$" /\ IsAmountChar(s[i + 1])}
    IN  IF starts = {} THEN NullObject
        ELSE LET i == SetMin(starts)
                 e == amountEnd(s, i + 1)
                 dash == skipSpace(s, e + 1)
                 dollar == skipSpace(s, dash + 1)
                 more == /\ dash <= Len(s)
                         /\ s[dash] = "-"
                         /\ dollar + 1 <= Len(s)
                         /\ s[dollar] = "$"
                         /\ IsAmountChar(s[dollar + 1])
             IN  [ first |-> SubSeq(s, i, e),
                   second |-> IF more
                              THEN SubSeq(s, dollar + 1, amountEnd(s, dollar + 1))
                              ELSE NULL ]

\* Mutant of stripNonNumeric: only the dollar sign is removed.
stripDollarOnly(s) == SelectSeq(s, LAMBDA c : c # "$")

\* .replace(/[^\d.]/g, '')
stripNonNumeric(s) == SelectSeq(s, LAMBDA c : IsDigit(c) \/ c = ".")

\* matches[k] ? matches[k].replace(/[^\d.]/g, '') : null
amountOrNull(group) == IF Truthy(group) THEN stripNonNumeric(group) ELSE NULL

\* extractSalary on the .salary element (NULL: the page has none; else its
\* text): null, the parsed dollar range, or the text alone.
extractSalary(salaryElement) ==
    IF salaryElement = NULL THEN NullObject
    ELSE LET salaryText == trim(salaryElement)
             matches == dollarMatch(salaryText)
         IN  IF salaryText = <<>> THEN NullObject
             ELSE IF matches # NullObject
             THEN [ text |-> salaryText,
                    min |-> amountOrNull(matches.first),
                    max |-> amountOrNull(matches.second),
                    currency |-> "USD",
                    estimated |-> FALSE,
                    source |-> "LinkedIn Job Posting" ]
             ELSE [ text |-> salaryText,
                    estimated |-> FALSE,
                    source |-> "LinkedIn Job Posting" ]

\* ------------------------------------------------------------------------
\* htmlToPlainText (src/index.js:639)
\* ------------------------------------------------------------------------

\* An html fragment is a sequence of characters and tags, a tag being one
\* element of the sequence.
ScriptOpen == "<script>"

ScriptClose == "</script>"

Tags == {"<p>", "</p>", ScriptOpen, ScriptClose}

\* The characters U+2022 (bullet) and U+2026 (horizontal ellipsis).
Bullet == "u2022"

Ellipsis == "u2026"

\* $('script, ...').remove(); $.text(): the characters outside script
\* elements and outside tags (html from position i on).
RECURSIVE textFrom(_, _, _)
textFrom(html, i, inScript) ==
    IF i > Len(html) THEN <<>>
    ELSE IF inScript THEN textFrom(html, i + 1, html[i] # ScriptClose)
    ELSE IF html[i] = ScriptOpen THEN textFrom(html, i + 1, TRUE)
    ELSE IF html[i] \in Tags THEN textFrom(html, i + 1, FALSE)
    ELSE <<html[i]>> \o textFrom(html, i + 1, FALSE)

textContent(html) == textFrom(html, 1, FALSE)

\* Last position of the maximal run of characters of chars that starts
\* at i.
runEnd(s, i, chars) ==
    CHOOSE j \in i..Len(s) :
        /\ \A k \in i..j : s[k] \in chars
        /\ (j = Len(s) \/ s[j + 1] \notin chars)

\* .replace(/[chars]+/g, by) from position i on.
RECURSIVE replaceRunsFrom(_, _, _, _)
replaceRunsFrom(s, i, chars, by) ==
    IF i > Len(s) THEN <<>>
    ELSE IF s[i] \in chars
         THEN by \o replaceRunsFrom(s, runEnd(s, i, chars) + 1, chars, by)
         ELSE <<s[i]>> \o replaceRunsFrom(s, i + 1, chars, by)

replaceRuns(s, chars, by) == replaceRunsFrom(s, 1, chars, by)

\* .replace(/\s+/g, ' ').replace(/\n+/g, '\n').replace(/\t+/g, ' ')
\* .replace(/[ \t]+/g, ' ').trim()
normalizeSpace(text) ==
    trim(replaceRuns(replaceRuns(replaceRuns(collapseWhitespace(text),
                                             {"\n"}, <<"\n">>),
                                 {"\t"}, <<" ">>),
                     {" ", "\t"}, <<" ">>))

\* .join(sep)
RECURSIVE join(_, _)
join(items, sep) ==
    IF items = <<>> THEN <<>>
    ELSE IF Len(items) = 1 THEN items[1]
    ELSE items[1] \o sep \o join(Tail(items), sep)

\* .split('\n').map(line => line.trim()).filter(line => line.length > 0)
\* .join('\n\n')
paragraphs(text) ==
    join(filterBoolean(trimEach(split(text, "\n"))), <<"\n", "\n">>)

SeeWhoYouKnowAt ==
    << "S", "e", "e", " ", "w", "h", "o", " ", "y", "o", "u", " ",
       "k", "n", "o", "w", " ", "a", "t" >>

Promoted == <<"P", "r", "o", "m", "o", "t", "e", "d">>

Sponsored == <<"S", "p", "o", "n", "s", "o", "r", "e", "d">>

SeeMore == <<"S", "e", "e", " ", "m", "o", "r", "e">>

\* .replace(/See who you know at.*$/m, ''): the first occurrence, up to
\* the end of its line.
removeSeeWho(text) ==
    LET starts == {i \in 1..Len(text) : HasLit(text, i, SeeWhoYouKnowAt)}
    IN  IF starts = {} THEN text
        ELSE LET i == SetMin(starts)
                 breaks == {j \in i..Len(text) : text[j] = "\n"}
                 e == IF breaks = {} THEN Len(text) ELSE SetMin(breaks) - 1
             IN  SubSeq(text, 1, i - 1) \o SubSeq(text, e + 1, Len(text))

\* .replace(/lits[1]|lits[2]|.../g, '') from position i on.
RECURSIVE removeLitsFrom(_, _, _)
removeLitsFrom(s, i, lits) ==
    IF i > Len(s) THEN <<>>
    ELSE LET hits == {k \in 1..Len(lits) : HasLit(s, i, lits[k])}
         IN  IF hits = {} THEN <<s[i]>> \o removeLitsFrom(s, i + 1, lits)
             ELSE removeLitsFrom(s, i + Len(lits[SetMin(hits)]), lits)

\* .replace(/Promoted|Sponsored/g, '')
removeLabels(text) == removeLitsFrom(text, 1, <<Promoted, Sponsored>>)

\* .replace(/^[•\-*]\s*/gm, '') from position i on.
RECURSIVE removeBulletsFrom(_, _)
removeBulletsFrom(s, i) ==
    IF i > Len(s) THEN <<>>
    ELSE IF (i = 1 \/ s[i - 1] = "\n") /\ s[i] \in {Bullet, "-", "*"}
         THEN removeBulletsFrom(s, skipSpace(s, i + 1))
         ELSE <<s[i]>> \o removeBulletsFrom(s, i + 1)

removeBullets(text) == removeBulletsFrom(text, 1)

\* Where a match of /\s*…\s*See more\s*/ that starts at i ends (the
\* position after it), 0 if there is none.
seeMoreEnd(s, i) ==
    LET dots == skipSpace(s, i)
        see == skipSpace(s, dots + 1)
    IN  IF dots <= Len(s) /\ s[dots] = Ellipsis /\ HasLit(s, see, SeeMore)
        THEN skipSpace(s, see + Len(SeeMore))
        ELSE 0

\* .replace(/\s*…\s*See more\s*/g, '') from position i on.
RECURSIVE removeSeeMoreFrom(_, _)
removeSeeMoreFrom(s, i) ==
    IF i > Len(s) THEN <<>>
    ELSE IF seeMoreEnd(s, i) # 0 THEN removeSeeMoreFrom(s, seeMoreEnd(s, i))
    ELSE <<s[i]>> \o removeSeeMoreFrom(s, i + 1)

removeSeeMore(text) == removeSeeMoreFrom(text, 1)

\* clutterPatterns.forEach(pattern => { text = text.replace(pattern, '') })
removeClutter(text) == removeSeeMore(removeBullets(removeLabels(removeSeeWho(text))))

\* .replace(/\n{3,}/g, '\n\n') from position i on.
RECURSIVE limitBreaksFrom(_, _)
limitBreaksFrom(s, i) ==
    IF i > Len(s) THEN <<>>
    ELSE IF s[i] = "\n"
         THEN LET e == runEnd(s, i, {"\n"})
              IN  (IF e - i + 1 >= 3 THEN <<"\n", "\n">> ELSE SubSeq(s, i, e))
                      \o limitBreaksFrom(s, e + 1)
         ELSE <<s[i]>> \o limitBreaksFrom(s, i + 1)

\* .replace(/(\n\s*){2,}/g, '\n\n') from position i on: a newline whose
\* whitespace run holds another newline is replaced with that run.
RECURSIVE blankLinesFrom(_, _)
blankLinesFrom(s, i) ==
    IF i > Len(s) THEN <<>>
    ELSE IF /\ s[i] = "\n"
            /\ \E k \in (i + 1)..runEnd(s, i, Whitespace) : s[k] = "\n"
         THEN <<"\n", "\n">> \o blankLinesFrom(s, runEnd(s, i, Whitespace) + 1)
         ELSE <<s[i]>> \o blankLinesFrom(s, i + 1)

\* .replace(/\n{3,}/g, '\n\n').replace(/^\s+|\s+$/g, '')
\* .replace(/(\n\s*){2,}/g, '\n\n')
removeArtifacts(text) == blankLinesFrom(trim(limitBreaksFrom(text, 1)), 1)

\* The body of the try block: the text of the parsed fragment, cleaned.
plainText(html) ==
    removeArtifacts(removeClutter(paragraphs(normalizeSpace(textContent(html)))))

\* Mutant of htmlToPlainText: without `if (!html) return null`, null
\* being read as the text "null".
htmlToPlainTextUnguarded(html, throws) ==
    IF throws THEN NULL
    ELSE OrNull(plainText(IF html = NULL THEN <<"n", "u", "l", "l">> ELSE html))

\* htmlToPlainText: null for no html; null when the try block throws;
\* else the cleaned text, or null when nothing is left of it.
htmlToPlainText(html, throws) ==
    IF ~Truthy(html) THEN NULL
    ELSE IF throws THEN NULL
    ELSE OrNull(plainText(html))

\* estimate.salary of getEnhancedSalaryEstimate: getLinkedInSalaryData
\* returns null, detectJobCategory and detectSeniorityFromTitle return keys
\* of titleMultipliers, so the estimator returns its salary object for
\* every title; the object is held by its period and currency.
estimatedSalary == [period |-> "YEAR", currency |-> "USD"]

\* Mutant of finalSalary: the estimate replaces a posted salary.
finalSalaryEstimateFirst(page, estimateSalary) ==
    IF estimateSalary /\ Truthy(page.title)
    THEN estimatedSalary
    ELSE extractSalary(page.salary)

\* finalSalary: the posted salary, else the estimate when one is asked for
\* and the page has a title.
finalSalary(page, estimateSalary) ==
    IF estimateSalary /\ extractSalary(page.salary) = NullObject /\ Truthy(page.title)
    THEN estimatedSalary
    ELSE extractSalary(page.salary)

\* `https://www.linkedin.com/jobs/view/${numericJobId}`
jobUrl(id) == LinkedInBase \o <<"/">> \o JobsView \o id

\* extractSkills on the texts of the skill pills: the trimmed texts that
\* are not empty.
extractSkills(pills) == filterBoolean(trimEach(pills))

\* Mutant of skillsField: the list is stored as it is.
skillsFieldAsExtracted(skills) == Array(skills)

\* skills: skills.length > 0 ? skills : null
skillsField(skills) == IF Len(skills) > 0 THEN Array(skills) ELSE NullObject

\* descriptionText ? descriptionText.length : null
descriptionLength(descriptionText) ==
    IF Truthy(descriptionText) THEN Len(descriptionText) ELSE NULL

\* The jobDetails object before enrichment; throws tells whether the try
\* block of htmlToPlainText throws.
jobDetails(id, page, estimateSalary, throws) ==
    [ id |-> id,
      title |-> cleanText(page.title),
      description |-> htmlToPlainText(page.description, throws),
      descriptionLength |-> descriptionLength(htmlToPlainText(page.description, throws)),
      skills |-> skillsField(extractSkills(page.pills)),
      salary |-> finalSalary(page, estimateSalary),
      companyLink |-> cleanText(page.companyLink),
      jobLink |-> jobUrl(id) ]

\* The company route's URL for an identifier (src/index.js:1187).
companyUrlOf(identifier) ==
    IF startsWith(identifier, Http) THEN identifier
    ELSE IF (\A k \in 1..Len(identifier) : IsDigit(identifier[k]))
            \/ ~includes(identifier, CompanyPath)
         THEN LinkedInBase \o CompanyPath \o identifier
         ELSE LinkedInBase \o identifier

\* The result object of searchJobs.
searchResult(a, js) ==
    [ success |-> TRUE,
      data |-> [jobsReturned |-> Len(js), jobs |-> js],
      searchParams |-> [keywords |-> a.keywords, location |-> a.location,
                        remote |-> a.remote] ]

searchKeyOf(a) ==
    searchKey(a.keywords, a.location, a.remote, a.enrichCompanies)

Ok(value) == [kind |-> "ok", value |-> value]

Thrown(message) == [kind |-> "error", message |-> message]

\* How axios.get rejects: the timeout ran out, or the status is not 2xx.
AxiosErrors == { "timeout of 30000ms exceeded",
                 "Request failed with status code 429" }

\* Mutant of failureMessage: the error is thrown on as it is.
failureMessageBare(kind, error) == error

\* `Failed to fetch jobs: ${error.message}` and
\* `Failed to fetch job details: ${error.message}`
failureMessage(kind, error) ==
    IF kind = "searchJobs"
    THEN "Failed to fetch jobs: " \o error
    ELSE "Failed to fetch job details: " \o error

\* cached.cacheHit = true; return cached
cacheHit(cached) == Ok([cacheHit |-> TRUE] @@ cached)

\* Mutant of Pending: only the first fetch is awaited.
PendingFirst(ts) == ts # <<>> /\ ts[1].state = "fetching"

Pending(ts) == \E i \in DOMAIN ts : ts[i].state = "fetching"

\* The request in flight, with records js, company fetches ts and cache c:
\* it waits while a company fetch is pending, and otherwise runs to its
\* return.
Resume(a, js, ts, c) ==
    /\ args' = a
    /\ tasks' = ts
    /\ IF Pending(ts)
       THEN /\ pc' = "fetchCompanyProfile"
            /\ jobs' = js
            /\ cache' = c
            /\ response' = NoResponse
       ELSE /\ pc' = "idle"
            /\ CASE a.kind = "searchJobs" ->
                      /\ jobs' = js
                      /\ cache' = cacheSet(c, searchKeyOf(a), searchResult(a, js))
                      /\ response' = Ok(searchResult(a, js))
                 [] a.kind = "getJobDetails" ->
                      LET details ==
                              IF a.enrichCompany THEN enriched(js[1], ts[1])
                              ELSE js[1]
                          cacheKey == jobKey(details.id, a.enrichCompany,
                                             a.estimateSalary)
                      IN  /\ jobs' = <<details>>
                          /\ cache' = cacheSet(c, cacheKey, details)
                          /\ response' = Ok(details)
                 [] a.kind = "company" ->
                      /\ jobs' = js
                      /\ cache' = c
                      /\ response' =
                           IF ts[1].state = "profile"
                           THEN Ok([success |-> TRUE, data |-> ts[1].value])
                           ELSE Thrown("Company not found or no longer available on LinkedIn")

Init ==
    /\ ResolverAtRest
    /\ ScraperAtRest
    /\ ExtractorAtRest
    /\ LimiterAtRest
    /\ FetchAtRest

\* searchJobs up to its fetch: a cached result is returned at once.
SearchJobs ==
    /\ pc = "idle"
    /\ calls < MaxCalls
    /\ \E location \in Locations, remote \in Remotes, enrichCompanies \in BOOLEAN :
         LET a == [ kind |-> "searchJobs", keywords |-> Dev,
                    location |-> location, remote |-> remote,
                    enrichCompanies |-> enrichCompanies ]
         IN  \E c \in expired(cache, {searchKeyOf(a)}) :
               /\ args' = a
               /\ cache' = c
               /\ IF searchKeyOf(a) \in DOMAIN c
                  THEN /\ response' = cacheHit(c[searchKeyOf(a)])
                       /\ pc' = "idle"
                  ELSE /\ response' = NoResponse
                       /\ pc' = "fetchWithRetry"
    /\ calls' = calls + 1
    /\ jobs' = <<>>
    /\ tasks' = <<>>
    /\ document' = NULL
    /\ extractor' = "init"
    /\ extracted' = NULL
    /\ UNCHANGED <<site, rvars, lvars, fvars>>

\* getJobDetails up to its fetch: the id is resolved, an unresolvable id
\* is refused, a cached result is returned at once.
GetJobDetails ==
    /\ pc = "idle"
    /\ calls < MaxCalls
    /\ \E jobId \in JobIds, enrichCompany \in BOOLEAN, estimateSalary \in BOOLEAN :
         LET id == extractNumericId(jobId, NULL)
             a == [ kind |-> "getJobDetails", jobId |-> jobId,
                    enrichCompany |-> enrichCompany,
                    estimateSalary |-> estimateSalary ]
             cacheKey == jobKey(id, enrichCompany, estimateSalary)
         IN  /\ args' = a
             /\ IF ~Truthy(id)
                THEN /\ response' = Thrown("Invalid Job ID. Job ID must contain numeric values.")
                     /\ pc' = "idle"
                     /\ cache' = cache
                ELSE \E c \in expired(cache, {cacheKey}) :
                       /\ cache' = c
                       /\ IF cacheKey \in DOMAIN c
                          THEN /\ response' = cacheHit(c[cacheKey])
                               /\ pc' = "idle"
                          ELSE /\ response' = NoResponse
                               /\ pc' = "fetchWithRetry"
    /\ calls' = calls + 1
    /\ jobs' = <<>>
    /\ tasks' = <<>>
    /\ document' = NULL
    /\ extractor' = "init"
    /\ extracted' = NULL
    /\ UNCHANGED <<site, rvars, lvars, fvars>>

\* fetchWithRetry throws after its last attempt: the request fails and
\* nothing is cached.
FetchFails ==
    /\ pc = "fetchWithRetry"
    /\ \E error \in AxiosErrors :
         response' = Thrown(failureMessage(args.kind, error))
    /\ pc' = "idle"
    /\ UNCHANGED <<site, cache, args, jobs, tasks, calls, rvars, evars, lvars, fvars>>

\* The listing page arrives: its cards are parsed, filtered and cut; with
\* enrichCompanies every record's company fetch is started.
SearchFetched ==
    /\ pc = "fetchWithRetry"
    /\ args.kind = "searchJobs"
    /\ \E listing \in Listings :
           /\ site' = listing.page
           /\ LET js == listing.jobs
                  keys == IF args.enrichCompanies
                          THEN { companyKey(js[i].companyLink) :
                                   i \in {j \in 1..Len(js) :
                                            validCompanyUrl(js[j].companyLink)} }
                          ELSE {}
              IN  \E c \in expired(cache, keys) :
                    LET ts == IF args.enrichCompanies
                              THEN [i \in 1..Len(js) |-> enrichmentTask(c, js[i])]
                              ELSE <<>>
                        es == IF args.enrichCompanies
                              THEN [i \in 1..Len(js) |-> enriched(js[i], ts[i])]
                              ELSE js
                    IN  Resume(args, es, ts, c)
    /\ UNCHANGED <<calls, rvars, evars, lvars, fvars>>

\* The job page arrives: the details are extracted and, if a flag asks
\* for it, the company profile is looked up.
JobDetailsFetched ==
    /\ pc = "fetchWithRetry"
    /\ args.kind = "getJobDetails"
    /\ \E page \in JobPages, throws \in BOOLEAN :
         LET details == jobDetails(extractNumericId(args.jobId, NULL), page,
                                   args.estimateSalary, throws)
             keys == IF (args.estimateSalary \/ args.enrichCompany)
                        /\ validCompanyUrl(details.companyLink)
                     THEN {companyKey(details.companyLink)}
                     ELSE {}
         IN  \E c \in expired(cache, keys) :
               LET task == IF args.estimateSalary \/ args.enrichCompany
                           THEN companyLookup(c, details.companyLink)
                           ELSE [state |-> "none"]
               IN  /\ Resume(args, <<details>>, <<task>>, c)
                   /\ document' = page.description
                   /\ extractor' = IF Truthy(page.description) /\ throws
                                    THEN "htmlToPlainText threw"
                                    ELSE "htmlToPlainText"
                   /\ extracted' = details.description
    /\ UNCHANGED <<site, calls, rvars, lvars, fvars>>

\* The company route: fetchCompanyProfile on the URL built from the
\* identifier.
CompanyRoute ==
    /\ pc = "idle"
    /\ calls < MaxCalls
    /\ \E identifier \in CompanyIdentifiers :
         LET companyUrl == companyUrlOf(identifier)
             keys == IF validCompanyUrl(companyUrl)
                     THEN {companyKey(companyUrl)} ELSE {}
         IN  \E c \in expired(cache, keys) :
               Resume([kind |-> "company", companyUrl |-> companyUrl],
                      <<>>, <<companyLookup(c, companyUrl)>>, c)
    /\ calls' = calls + 1
    /\ document' = NULL
    /\ extractor' = "init"
    /\ extracted' = NULL
    /\ UNCHANGED <<site, rvars, lvars, fvars>>

\* The company page of fetch i arrives: the profile is built, cached if
\* cache-worthy, and returned to its caller.
CompanyFetched(i) ==
    /\ pc = "fetchCompanyProfile"
    /\ tasks[i].state = "fetching"
    /\ \E page \in CompanyPages :
         LET info == companyInfo(page, tasks[i].url)
             c == IF cacheWorthy(info)
                  THEN cacheSet(cache, companyKey(tasks[i].url), info)
                  ELSE cache
             ts == [tasks EXCEPT ![i] = [state |-> "profile", value |-> info]]
             js == IF args.kind = "searchJobs"
                   THEN [jobs EXCEPT ![i] = enriched(@, ts[i])]
                   ELSE jobs
         IN  Resume(args, js, ts, c)
    /\ UNCHANGED <<site, calls, rvars, evars, lvars, fvars>>

\* Fetch i throws: fetchCompanyProfile catches the error and returns null.
CompanyFetchFails(i) ==
    /\ pc = "fetchCompanyProfile"
    /\ tasks[i].state = "fetching"
    /\ Resume(args, jobs, [tasks EXCEPT ![i] = [state |-> "failed"]], cache)
    /\ UNCHANGED <<site, calls, rvars, evars, lvars, fvars>>

Next ==
    \/ SearchJobs
    \/ GetJobDetails
    \/ CompanyRoute
    \/ FetchFails
    \/ SearchFetched
    \/ JobDetailsFetched
    \/ \E i \in DOMAIN tasks : CompanyFetched(i)
    \/ \E i \in DOMAIN tasks : CompanyFetchFails(i)

Spec == Init /\ [][Next]_vars

\* ------------------------------------------------------------------------
\* The extractors, each applied on its own to every document
\* ------------------------------------------------------------------------

\* The resolver and the scraper stay at rest while an extractor runs.
OthersAtRest ==
    /\ ResolverAtRest
    /\ ScraperAtRest
    /\ LimiterAtRest
    /\ FetchAtRest

\* Texts of a .salary element are built from these pieces.
SalaryPieces ==
    { <<"$", "5">>, <<"$", "1", ",", "0">>, <<".", "5", "0">>, <<".", "5">>,
      <<"-">>, <<" ">>, <<"N">>, <<"$">> }

MaxSalaryPieces == 4

\* A page without a .salary element, or one with any of the texts.
InitSalary ==
    /\ \/ document = NULL
       \/ \E n \in 0..MaxSalaryPieces :
            \E ps \in [1..n -> SalaryPieces] : document = Flatten(ps)
    /\ extractor = "init"
    /\ extracted = NULL
    /\ OthersAtRest

\* extractSalary($) on the page.
ExtractSalary ==
    /\ extractor = "init"
    /\ extractor' = "extractSalary"
    /\ extracted' = extractSalary(document)
    /\ UNCHANGED <<document, rvars, svars, lvars, fvars>>

NextSalary == ExtractSalary

SpecSalary == InitSalary /\ [][NextSalary]_vars

\* Texts of a Specialties entry are built from these pieces.
SpecialtiesPieces == { <<"a">>, <<"b">>, <<" ">>, <<",">> }

MaxSpecialtiesPieces == 4

\* A company page without a Specialties entry, or one with any of the
\* texts.
InitSpecialties ==
    /\ \/ document = NULL
       \/ \E n \in 0..MaxSpecialtiesPieces :
            \E ps \in [1..n -> SpecialtiesPieces] : document = Flatten(ps)
    /\ extractor = "init"
    /\ extracted = NULL
    /\ OthersAtRest

\* extractSpecialties($) on the page.
ExtractSpecialties ==
    /\ extractor = "init"
    /\ extractor' = "extractSpecialties"
    /\ extracted' = extractSpecialties(document)
    /\ UNCHANGED <<document, rvars, svars, lvars, fvars>>

NextSpecialties == ExtractSpecialties

SpecSpecialties == InitSpecialties /\ [][NextSpecialties]_vars

\* Texts of the about-us elements are built from these pieces.
AboutPieces == { <<" ">>, <<"x">>, <<"y">> }

MaxAboutPieces == 1

AboutTexts ==
    UNION { { Flatten(ps) : ps \in [1..n -> AboutPieces] } : n \in 0..MaxAboutPieces }

\* A company page with or without an about-us section and with or without
\* an element for each alternate selector.
InitAbout ==
    /\ \E section \in {NULL} \cup AboutTexts :
         \E alternates \in [1..Len(AboutSelectors) -> {NULL} \cup AboutTexts] :
           document = About(section, alternates)
    /\ extractor = "init"
    /\ extracted = NULL
    /\ OthersAtRest

\* extractCompanyAbout($) on the page.
ExtractCompanyAbout ==
    /\ extractor = "init"
    /\ extractor' = "extractCompanyAbout"
    /\ extracted' = extractCompanyAbout(document)
    /\ UNCHANGED <<document, rvars, svars, lvars, fvars>>

NextAbout == ExtractCompanyAbout

SpecAbout == InitAbout /\ [][NextAbout]_vars

\* Html fragments are built from these pieces.
HtmlPieces ==
    { <<"a">>, <<"b">>, <<" ">>, <<"\n">>, <<"\t">>, <<"-">>,
      <<"<p>">>, <<"</p>">>, <<ScriptOpen>>, <<ScriptClose>>,
      <<"P", "r", "o", "m">>, <<"o", "t", "e", "d">>, Sponsored,
      SeeWhoYouKnowAt, <<Ellipsis>>, SeeMore }

MaxHtmlPieces == 3

\* The longest fragment, in characters and tags.
MaxHtmlLength == 30

\* No html (the page has no description element), or any of the fragments.
InitHtml ==
    /\ \/ document = NULL
       \/ \E n \in 0..MaxHtmlPieces :
            \E ps \in [1..n -> HtmlPieces] :
              /\ Len(Flatten(ps)) <= MaxHtmlLength
              /\ document = Flatten(ps)
    /\ extractor = "init"
    /\ extracted = NULL
    /\ OthersAtRest

\* htmlToPlainText(html) returns from its first line or from its try
\* block.
HtmlToPlainText ==
    /\ extractor = "init"
    /\ extractor' = "htmlToPlainText"
    /\ extracted' = htmlToPlainText(document, FALSE)
    /\ UNCHANGED <<document, rvars, svars, lvars, fvars>>

\* htmlToPlainText(html) returns from its catch block.
HtmlToPlainTextThrows ==
    /\ extractor = "init"
    /\ Truthy(document)
    /\ extractor' = "htmlToPlainText threw"
    /\ extracted' = htmlToPlainText(document, TRUE)
    /\ UNCHANGED <<document, rvars, svars, lvars, fvars>>

\* The text returned is wrapped in a <p> element and converted again.
Reextract ==
    /\ extractor = "htmlToPlainText"
    /\ extracted # NULL
    /\ document' = <<"<p>">> \o extracted \o <<"</p>">>
    /\ extractor' = "htmlToPlainText again"
    /\ extracted' = htmlToPlainText(document', FALSE)
    /\ UNCHANGED <<rvars, svars, lvars, fvars>>

NextHtml ==
    \/ HtmlToPlainText
    \/ HtmlToPlainTextThrows
    \/ Reextract

SpecHtml == InitHtml /\ [][NextHtml]_vars

\* Arguments of cleanText are built from these pieces.
TextPieces == { <<"a">>, <<"b">>, <<" ">>, <<"\t">>, <<"\n">> }

MaxTextPieces == 5

\* null, a value that is no string, or any of the texts.
InitCleanText ==
    /\ \/ document \in {NULL} \cup NonStrings
       \/ \E n \in 0..MaxTextPieces :
            \E ps \in [1..n -> TextPieces] : document = Flatten(ps)
    /\ extractor = "init"
    /\ extracted = NULL
    /\ OthersAtRest

\* cleanText(text)
CleanText ==
    /\ extractor = "init"
    /\ extractor' = "cleanText"
    /\ extracted' = cleanText(document)
    /\ UNCHANGED <<document, rvars, svars, lvars, fvars>>

\* cleanText on the text it returned.
CleanTextAgain ==
    /\ extractor = "cleanText"
    /\ extracted # NULL
    /\ document' = extracted
    /\ extractor' = "cleanText again"
    /\ extracted' = cleanText(extracted)
    /\ UNCHANGED <<rvars, svars, lvars, fvars>>

NextCleanText ==
    \/ CleanText
    \/ CleanTextAgain

SpecCleanText == InitCleanText /\ [][NextCleanText]_vars

\* Texts of a skill pill.
PillTexts == { <<>>, <<" ">>, <<"x">>, <<" ", "y", " ">> }

MaxPills == 3

\* A job page with any number of skill pills.
InitSkills ==
    /\ \E n \in 0..MaxPills : document \in [1..n -> PillTexts]
    /\ extractor = "init"
    /\ extracted = NULL
    /\ OthersAtRest

\* The skills field of jobDetails: extractSkills($), and null for none.
ExtractSkills ==
    /\ extractor = "init"
    /\ extractor' = "extractSkills"
    /\ extracted' = skillsField(extractSkills(document))
    /\ UNCHANGED <<document, rvars, svars, lvars, fvars>>

NextSkills == ExtractSkills

SpecSkills == InitSkills /\ [][NextSkills]_vars

\* Texts of the .salary element and of the title a job page may have.
PostedSalaries == { NULL, <<>>, <<" ">>, <<"$", "5">>, <<"N">>,
                    <<"$", "5", " ", "-", " ", "$", "9">>, <<" ", "$", "1", ",", "0">> }

RawTitles == { <<>>, <<" ">>, Dev, <<"s", "r", " ", "d", "e", "v">> }

\* A job page and the estimateSalary flag of a getJobDetails call.
InitFinalSalary ==
    /\ \E salary \in PostedSalaries, title \in RawTitles,
          link \in {NULL, CompanyLinkA}, estimateSalary \in BOOLEAN :
          document = [page |-> [title |-> title, companyLink |-> link,
                                salary |-> salary, description |-> NULL,
                                pills |-> <<>>],
                      estimateSalary |-> estimateSalary]
    /\ extractor = "init"
    /\ extracted = NullObject
    /\ OthersAtRest

\* The salary field of the jobDetails object getJobDetails builds.
FinalSalary ==
    /\ extractor = "init"
    /\ extractor' = "finalSalary"
    /\ extracted' = jobDetails(<<"1">>, document.page,
                               document.estimateSalary, FALSE).salary
    /\ UNCHANGED <<document, rvars, svars, lvars, fvars>>

NextFinalSalary == FinalSalary

SpecFinalSalary == InitFinalSalary /\ [][NextFinalSalary]_vars

\* The longest listing page served to the search below.
MaxListingCards == 52

\* The last position the blank card of a page may have.
MaxBlank == 3

\* Card k of a long listing page: its data-id is a five-digit number
\* ending in k, every other card links its company; a blank card has no
\* title text.
listingCard(k, blank) ==
    Card(TRUE, <<"1", "0", "0", DigitChars[(k \div 10) + 1], DigitChars[(k % 10) + 1]>>,
         IF blank THEN <<" ">> ELSE Dev, Acme, NULL,
         IF k % 2 = 1 THEN CompanyLinkA ELSE NULL)

\* A listing page of up to MaxListingCards cards, one of the first
\* MaxBlank blank or none, and the enrichCompanies flag of the search.
InitListing ==
    /\ \E n \in 0..MaxListingCards, blank \in 0..MaxBlank,
          enrichCompanies \in BOOLEAN :
          /\ blank <= n
          /\ document = [page |-> [k \in 1..n |-> listingCard(k, k = blank)],
                         enrichCompanies |-> enrichCompanies]
    /\ extractor = "init"
    /\ extracted = NullObject
    /\ OthersAtRest

\* searchJobs from the parsed page to the start of the enrichment: the
\* accepted records, cut at DEFAULT_RESULTS, the company fetch of each
\* record with nothing cached, and the result object.
ParseListing ==
    /\ extractor = "init"
    /\ extractor' = "searchJobs"
    /\ LET js == slice(eachJobElement(document.page,
                                      [k \in 1..Len(document.page) |-> NULL], 1),
                       DEFAULT_RESULTS)
           a == [keywords |-> Dev, location |-> <<>>, remote |-> FALSE]
       IN  extracted' =
               [ result |-> searchResult(a, js),
                 tasks |-> IF document.enrichCompanies
                           THEN [i \in 1..Len(js) |-> enrichmentTask(<<>>, js[i])]
                           ELSE <<>> ]
    /\ UNCHANGED <<document, rvars, svars, lvars, fvars>>

NextListing == ParseListing

SpecListing == InitListing /\ [][NextListing]_vars

\* ------------------------------------------------------------------------
\* fetchWithRetry (src/index.js:549)
\* ------------------------------------------------------------------------

\* config.MAX_RETRIES
MAX_RETRIES == 3

\* The largest retries argument a call passes.
MaxRetries == 5

\* The arguments of a call: the url alone, or the url and retries.
FetchArguments ==
    { [url |-> "u"] } \cup { [url |-> "u", retries |-> n] : n \in 0..MaxRetries }

\* retries = config.MAX_RETRIES
retriesOf(arguments) ==
    IF "retries" \in DOMAIN arguments THEN arguments.retries ELSE MAX_RETRIES

\* Mutant of lastAttempt: one attempt late.
lastAttemptOffByOne(idx, n) == idx = n

\* i === retries - 1
lastAttempt(idx, n) == idx = n - 1

\* 1000 * (i + 1)
backoff(idx) == 1000 * (idx + 1)

\* One entry of the log.
Event(event, idx, error, ms) ==
    [event |-> event, attempt |-> idx, error |-> error, ms |-> ms]

InitFetch ==
    /\ FetchAtRest
    /\ LimiterAtRest
    /\ ResolverAtRest
    /\ ScraperAtRest
    /\ ExtractorAtRest

\* The call: i = 0 and the loop test; axios.get is called if it holds,
\* else the function ends without a return value.
FetchWithRetry ==
    /\ fetchPc = "idle"
    /\ \E arguments \in FetchArguments :
         /\ retries' = retriesOf(arguments)
         /\ loopIndex' = 0
         /\ IF 0 < retriesOf(arguments)
            THEN /\ fetchPc' = "request"
                 /\ log' = <<Event("request", 0, "", 0)>>
            ELSE /\ fetchPc' = "returned"
                 /\ log' = <<Event("return undefined", 0, "", 0)>>
    /\ UNCHANGED <<rvars, svars, evars, lvars>>

\* axios.get resolves: return response.
AxiosResolves ==
    /\ fetchPc = "request"
    /\ fetchPc' = "returned"
    /\ log' = Append(log, Event("response", loopIndex, "", 0))
    /\ UNCHANGED <<retries, loopIndex, rvars, svars, evars, lvars>>

\* axios.get rejects: the catch block throws the error on the last
\* attempt and sets the timer on the others.
AxiosRejects ==
    /\ fetchPc = "request"
    /\ \E error \in AxiosErrors :
         IF lastAttempt(loopIndex, retries)
         THEN /\ fetchPc' = "thrown"
              /\ log' = log \o <<Event("error", loopIndex, error, 0),
                                 Event("throw", loopIndex, error, 0)>>
         ELSE /\ fetchPc' = "wait"
              /\ log' = Append(log, Event("error", loopIndex, error, 0))
    /\ UNCHANGED <<retries, loopIndex, rvars, svars, evars, lvars>>

\* The timer fires: i++ and the loop test.
TimerFires ==
    /\ fetchPc = "wait"
    /\ loopIndex' = loopIndex + 1
    /\ IF loopIndex + 1 < retries
       THEN /\ fetchPc' = "request"
            /\ log' = log \o <<Event("waited", loopIndex, "", backoff(loopIndex)),
                               Event("request", loopIndex + 1, "", 0)>>
       ELSE /\ fetchPc' = "returned"
            /\ log' = log \o <<Event("waited", loopIndex, "", backoff(loopIndex)),
                               Event("return undefined", loopIndex + 1, "", 0)>>
    /\ UNCHANGED <<retries, rvars, svars, evars, lvars>>

NextFetch ==
    \/ FetchWithRetry
    \/ AxiosResolves
    \/ AxiosRejects
    \/ TimerFires

SpecFetch == InitFetch /\ [][NextFetch]_vars

\* axios.get settles within config.REQUEST_TIMEOUT and the timer of
\* setTimeout fires.
SpecFetchLive ==
    /\ SpecFetch
    /\ WF_vars(AxiosResolves \/ AxiosRejects)
    /\ WF_vars(TimerFires)

\* ------------------------------------------------------------------------
\* rateLimiter (src/unnamed/part_001:59)
\* ------------------------------------------------------------------------

\* config.RATE_LIMIT_MAX and config.RATE_LIMIT_WINDOW on a small scale: the
\* source has 100 requests and 15 * 60 * 1000 ms.  The limiter only
\* compares with them and adds the window to the time, so a small limit
\* and a window of a few clock steps take it through the same branches.
RATE_LIMIT_MAX == 2

RATE_LIMIT_WINDOW == 2

\* The clock stops here.
MaxTime == 5

\* The requests that arrive: their headers x-rapidapi-proxy-secret and
\* x-api-key (NULL when not sent) and the address they come from.
Requests ==
    { [secret |-> NULL, apiKey |-> NULL, ip |-> <<"i">>],
      [secret |-> NULL, apiKey |-> <<"k">>, ip |-> <<"i">>],
      [secret |-> <<"k">>, apiKey |-> <<"x">>, ip |-> <<"j">>],
      [secret |-> <<>>, apiKey |-> <<>>, ip |-> <<"i">>] }

\* req.headers['x-rapidapi-proxy-secret'] || req.headers['x-api-key'] || req.ip
clientKey(req) ==
    IF Truthy(req.secret) THEN req.secret
    ELSE IF Truthy(req.apiKey) THEN req.apiKey
    ELSE req.ip

\* { count: 0, resetTime: Date.now() + config.RATE_LIMIT_WINDOW }
freshLimitInfo == [count |-> 0, resetTime |-> now + RATE_LIMIT_WINDOW]

\* Mutant of limitInfoOf: a window that has run out is not reset.
limitInfoNeverReset(key) ==
    IF key \in DOMAIN apiKeyRateLimit THEN apiKeyRateLimit[key] ELSE freshLimitInfo

\* limitInfo at the test of the count: the key's entry, made if there is
\* none and reset if the time is past its resetTime.
limitInfoOf(key) ==
    LET stored == IF key \in DOMAIN apiKeyRateLimit
                  THEN apiKeyRateLimit[key]
                  ELSE freshLimitInfo
    IN  IF now > stored.resetTime THEN freshLimitInfo ELSE stored

\* Mutant of overLimit: one request more is let through.
overLimitByOne(limitInfo) == limitInfo.count > RATE_LIMIT_MAX

\* if (limitInfo.count >= config.RATE_LIMIT_MAX)
overLimit(limitInfo) == limitInfo.count >= RATE_LIMIT_MAX

\* The times of the requests of key passed on so far.
passedOf(key) == IF key \in DOMAIN passed THEN passed[key] ELSE <<>>

InitLimiter ==
    /\ LimiterAtRest
    /\ FetchAtRest
    /\ ResolverAtRest
    /\ ScraperAtRest
    /\ ExtractorAtRest

\* A request arrives: rateLimiter answers 429 or counts it and calls
\* next().
RateLimiter ==
    /\ \E req \in Requests :
         LET key == clientKey(req)
             limitInfo == limitInfoOf(key)
         IN  IF overLimit(limitInfo)
             THEN /\ apiKeyRateLimit' = cacheSet(apiKeyRateLimit, key, limitInfo)
                  /\ answer' = [status |-> "429", key |-> key]
                  /\ passed' = passed
             ELSE /\ apiKeyRateLimit' =
                        cacheSet(apiKeyRateLimit, key,
                                 [limitInfo EXCEPT !.count = @ + 1])
                  /\ answer' = [status |-> "next", key |-> key]
                  /\ passed' = cacheSet(passed, key, Append(passedOf(key), now))
    /\ UNCHANGED <<now, rvars, svars, evars, fvars>>

\* Time passes.
Tick ==
    /\ now < MaxTime
    /\ now' = now + 1
    /\ UNCHANGED <<apiKeyRateLimit, passed, answer, rvars, svars, evars, fvars>>

NextLimiter ==
    \/ RateLimiter
    \/ Tick

SpecLimiter == InitLimiter /\ [][NextLimiter]_vars

\* ------------------------------------------------------------------------
\* Properties of the identifier resolver (checked under SpecResolve)
\* ------------------------------------------------------------------------

\* A non-empty string of decimal digits.
IsDigitString(s) ==
    /\ s # NULL
    /\ Len(s) > 0
    /\ \A k \in 1..Len(s) : IsDigit(s[k])

\* The last maximal digit run of s (s holds a digit), stated on positions.
LastDigitRun(s) ==
    LET e == SetMax({i \in 1..Len(s) : IsDigit(s[i])})
        b == SetMin({i \in 1..e : \A k \in i..e : IsDigit(s[k])})
    IN  SubSeq(s, b, e)

HasDigit(s) == \E i \in 1..Len(s) : IsDigit(s[i])

\* C1 as stated: for every candidate string and every permalink,
\* extractNumericId returns a non-empty string of decimal digits, never null.
C1_AlwaysDigitString ==
    op = "extractNumericId" => IsDigitString(numericId)

\* C1 amended: for every non-empty candidate string and every permalink,
\* extractNumericId returns a non-empty string of decimal digits.
C1_DigitStringForNonEmptyCandidate ==
    op = "extractNumericId" /\ input # <<>> => IsDigitString(numericId)

\* C1 witness: a non-empty candidate with a short number in it and no URL
\* shape was resolved by the hash fallback.
C1_Witness ==
    /\ op = "extractNumericId"
    /\ input # <<>>
    /\ fromJobLink(jobLink) = NULL
    /\ firstUrlPattern(input) = NULL
    /\ HasDigit(input)
    /\ Len(LastDigitRun(input)) < MinIdDigits
    /\ numericId = fallbackId(input)

\* C2 as stated: whenever the permalink matches the job-view shape with a
\* "-<digits>" slug, extractNumericId returns those digits, whatever the
\* candidate is (empty included).
C2_SlugPrecedence ==
    op = "extractNumericId" /\ Truthy(jobLink) /\ urlMatch(jobLink) # NULL
        => numericId = urlMatch(jobLink)

\* C2 amended: whenever the permalink matches the job-view shape with a
\* "-<digits>" slug and the candidate is not empty, extractNumericId returns
\* the digits the slug pattern captures in the permalink.
C2_SlugPrecedenceForNonEmptyCandidate ==
    op = "extractNumericId" /\ input # <<>>
    /\ Truthy(jobLink) /\ urlMatch(jobLink) # NULL
        => numericId = urlMatch(jobLink)

\* C2 witness: the permalink has a slug id and the candidate is a pure
\* numeric id of its own, different from the slug's; the slug's was returned.
C2_Witness ==
    /\ op = "extractNumericId"
    /\ Truthy(jobLink) /\ urlMatch(jobLink) # NULL
    /\ isPureNumericId(input)
    /\ input # urlMatch(jobLink)
    /\ numericId = urlMatch(jobLink)

\* C3 as stated: every id the listing stage returns is accepted unchanged
\* by getJobDetails (resolving it again with no job link gives the same id).
C3_RoundTrip ==
    op \in {"getJobDetails", "invalidJobId"} => numericJobId = numericId

\* C5: every id parseJobElement returns is a non-empty string of decimal
\* digits, whatever data-id attribute and job link the card has.
C5_ParsedIdIsDigitString ==
    op = "parseJobElement" => IsDigitString(numericId)

\* C5 witness: a card with neither data-id nor job link was parsed; the
\* candidate was a generated UUID.
C5_Witness ==
    /\ op = "parseJobElement"
    /\ ~Truthy(attrId)
    /\ ~Truthy(href)
    /\ input \in Uuids
    /\ IsDigitString(numericId)

\* C10: for a candidate with no permalink and none of the URL shapes that is
\* not purely digits, the result is the last maximal digit run when that
\* run has at least 5 digits, and otherwise the hash fallback; an earlier
\* run is never what is returned.
C10_LastNumberSelection ==
    ( /\ op = "extractNumericId"
      /\ jobLink = NULL
      /\ input # <<>>
      /\ firstUrlPattern(input) = NULL
      /\ ~IsDigitString(input) )
        => IF HasDigit(input) /\ Len(LastDigitRun(input)) >= MinIdDigits
           THEN numericId = LastDigitRun(input)
           ELSE numericId = fallbackId(input)

\* C10 witness: a candidate with two different numbers, the first one
\* short, was resolved to its last number.
C10_Witness ==
    /\ op = "extractNumericId"
    /\ jobLink = NULL
    /\ firstUrlPattern(input) = NULL
    /\ Len(allNumbers(input)) >= 2
    /\ Len(allNumbers(input)[1]) < MinIdDigits
    /\ numericId = LastDigitRun(input)
    /\ numericId # allNumbers(input)[1]

\* C11: with no permalink, a candidate made only of digits is returned
\* unchanged when it has at least 5 digits, and is not returned unchanged
\* when it has fewer: it then gets the result of the later steps (its last
\* number is too short, so the hash).
C11_PureNumericCandidate ==
    ( /\ op = "extractNumericId"
      /\ jobLink = NULL
      /\ IsDigitString(input) )
        => IF Len(input) >= MinIdDigits
           THEN numericId = input
           ELSE numericId # input /\ numericId = fallbackId(input)

\* C11 witness: a candidate of more than 5 digits was resolved with no
\* permalink and came back unchanged.
C11_Witness ==
    /\ op = "extractNumericId"
    /\ jobLink = NULL
    /\ IsDigitString(input)
    /\ Len(input) > MinIdDigits
    /\ numericId = input

\* The permalink is absent or matches neither job-view shape.
NoJobViewInLink ==
    jobLink = NULL \/ (urlMatch(jobLink) = NULL /\ directUrlMatch(jobLink) = NULL)

\* C12: when the permalink is absent or matches neither job-view shape, a
\* non-empty candidate is resolved by the first of the shapes slug job-view,
\* bare-digit job-view, jobId=, trailing /digits that matches it, and by the
\* later steps (pure digits, last digit run, hash) only if none matches.
C12_UrlShapeOrder ==
    ( /\ op = "extractNumericId"
      /\ input # <<>>
      /\ NoJobViewInLink )
        => numericId =
             ( IF urlMatch(input) # NULL THEN urlMatch(input)
               ELSE IF directUrlMatch(input) # NULL THEN directUrlMatch(input)
               ELSE IF jobIdMatch(input) # NULL THEN jobIdMatch(input)
               ELSE IF trailingDigitsMatch(input) # NULL
                    THEN trailingDigitsMatch(input)
               ELSE fromCandidate(input) )

\* C12 witness: a candidate matching the bare-digit job-view shape and the
\* jobId= shape with different digits was resolved to the job-view digits.
C12_Witness ==
    /\ op = "extractNumericId"
    /\ NoJobViewInLink
    /\ urlMatch(input) = NULL
    /\ directUrlMatch(input) # NULL
    /\ jobIdMatch(input) # NULL
    /\ jobIdMatch(input) # directUrlMatch(input)
    /\ numericId = directUrlMatch(input)

\* h * 31 + c modulo 2^32, by multiplication on the two halves.
Times31Plus(h, c) ==
    LET lo == h[2] * 31 + c
    IN  <<(h[1] * 31 + (lo \div Half)) % Half, lo % Half>>

\* The polynomial hash of str[1..n], folded from 0.
RECURSIVE Fold31(_, _)
Fold31(str, n) ==
    IF n = 0 THEN <<0, 0>>
    ELSE LET h == Fold31(str, n - 1)
         IN  CASE IsInt32(h) -> Times31Plus(h, charCode[str[n]])

\* The value of a decimal string modulo 2^32, on the two halves.
RECURSIVE DecimalValue(_, _)
DecimalValue(d, n) ==
    IF n = 0 THEN <<0, 0>>
    ELSE LET v == DecimalValue(d, n - 1)
             digit == CHOOSE k \in 0..9 : DigitChars[k + 1] = d[n]
             lo == v[2] * 10 + digit
         IN  CASE IsInt32(v) -> <<(v[1] * 10 + (lo \div Half)) % Half, lo % Half>>

\* The hash step is the one that resolves the call.
HashFallbackApplies ==
    /\ op = "extractNumericId"
    /\ input # <<>>
    /\ NoJobViewInLink
    /\ firstUrlPattern(input) = NULL
    /\ ~IsDigitString(input)
    /\ (HasDigit(input) => Len(LastDigitRun(input)) < MinIdDigits)

\* C13: when the hash step resolves the call, the result is the decimal
\* numeral, of 1 to 10 digits, of |h|, h being the fold h := h * 31 +
\* charCode over the candidate from 0, wrapped to a signed 32-bit integer
\* at each step; |h| has at most 10 digits, so the cut to 10 keeps all.
C13_HashFallback ==
    HashFallbackApplies
        => /\ IsDigitString(numericId)
           /\ Len(numericId) \in 1..FallbackIdLength
           /\ (Len(numericId) > 1 => numericId[1] # "0")
           /\ (Len(numericId) = FallbackIdLength => numericId[1] \in {"1", "2"})
           /\ DecimalValue(numericId, Len(numericId))
                = MathAbs(Fold31(input, Len(input)))

\* C13 witness: the hash step resolved a candidate whose fold had wrapped
\* to a negative 32-bit value.
C13_Witness ==
    /\ HashFallbackApplies
    /\ IsNegative32(Fold31(input, Len(input)))
    /\ Len(numericId) = FallbackIdLength

\* ------------------------------------------------------------------------
\* Properties of the scraper (checked under Spec)
\* ------------------------------------------------------------------------

IsSearchKey(key) == startsWith(key, <<"j", "o", "b", "s", ":">>)

IsCompanyKey(key) == startsWith(key, <<"c", "o", "m", "p", "a", "n", "y", ":">>)

HasCompanyDetails(record) == "companyDetails" \in DOMAIN record

\* The last request has returned a result it built itself.
FreshResult(kind) ==
    /\ args.kind = kind
    /\ response.kind = "ok"
    /\ "cacheHit" \notin DOMAIN response.value

Complete(job) ==
    /\ job.title # NULL /\ job.title # <<>>
    /\ job.company # NULL /\ job.company # <<>>
    /\ job.id # NULL /\ job.id # <<>>

AllComplete(js) == \A i \in 1..Len(js) : Complete(js[i])

\* The listing cards of the served page whose title and company both
\* extract to a text, in document order.
KeptCards ==
    SelectSeq(site, LAMBDA card :
        /\ card.jobSearchCard
        /\ cleanText(card.title) # NULL
        /\ cleanText(card.company) # NULL)

\* C6: every job in a search result, returned or cached, has a non-empty
\* title, company and id; and the result built from a served page holds
\* exactly the page's listing cards (the job-search cards) whose title and
\* company extract to a text, in page order up to the cut at
\* DEFAULT_RESULTS: none with a null title or company, none of the others
\* missing.
C6_RecordDiscard ==
    /\ \A key \in DOMAIN cache :
         IsSearchKey(key) => AllComplete(cache[key].data.jobs)
    /\ (args.kind = "searchJobs" /\ response.kind = "ok")
         => AllComplete(response.value.data.jobs)
    /\ FreshResult("searchJobs")
         => LET js == response.value.data.jobs
            IN  /\ Len(js) = (IF Len(KeptCards) < DEFAULT_RESULTS
                              THEN Len(KeptCards) ELSE DEFAULT_RESULTS)
                /\ \A i \in 1..Len(js) :
                     /\ js[i].title = cleanText(KeptCards[i].title)
                     /\ js[i].company = cleanText(KeptCards[i].company)
                     /\ js[i].link = absoluteJobLink(KeptCards[i].link)
                     /\ js[i].companyLink =
                            cleanedCompanyLink(KeptCards[i].companyLink)

\* C6 witness: a search returned a page's record while the page also held
\* a job-search card with no company text and one with a blank title.
C6_Witness ==
    /\ FreshResult("searchJobs")
    /\ Len(response.value.data.jobs) = 1
    /\ Len(site) = 2
    /\ \E i \in 1..Len(site) :
         /\ site[i].jobSearchCard
         /\ (cleanText(site[i].company) = NULL \/ cleanText(site[i].title) = NULL)

\* C7: a search with enrichCompanies that got its listing page never ends
\* in an error, whichever of its company fetches fail; it returns every
\* record of the page, a record has companyDetails exactly when its own
\* fetch returned a profile, and that profile is the one it carries.
C7_EnrichmentIsolation ==
    /\ (args.kind = "searchJobs" /\ response.kind = "error") => tasks = <<>>
    /\ (FreshResult("searchJobs") /\ args.enrichCompanies)
         => LET js == response.value.data.jobs
            IN  /\ Len(js) = Len(tasks)
                /\ Len(js) = Len(KeptCards)
                /\ \A i \in 1..Len(js) :
                     IF tasks[i].state = "profile"
                     THEN /\ HasCompanyDetails(js[i])
                          /\ js[i].companyDetails = tasks[i].value
                     ELSE ~HasCompanyDetails(js[i])

\* C7 witness: a search returned two records; the company fetch of one had
\* failed, the other's had returned a profile.
C7_Witness ==
    /\ FreshResult("searchJobs")
    /\ args.enrichCompanies
    /\ Len(response.value.data.jobs) = 2
    /\ \E i, j \in 1..Len(tasks) :
         /\ tasks[i].state = "failed"
         /\ ~HasCompanyDetails(response.value.data.jobs[i])
         /\ tasks[j].state = "profile"
         /\ HasCompanyDetails(response.value.data.jobs[j])

\* A companyDetails field holds a profile of the record's own company link.
OwnProfile(record) ==
    HasCompanyDetails(record)
        => /\ validCompanyUrl(record.companyLink)
           /\ DOMAIN record.companyDetails
                  = {"about", "employeeCount", "specialties", "linkedinUrl"}
           /\ record.companyDetails.linkedinUrl = fullUrl(record.companyLink)

\* C8: a result of searchJobs or getJobDetails, built or served from the
\* cache, carries no companyDetails on any record when the call's
\* enrichment flag is false (also when estimateSalary had the profile
\* fetched); when the flag is true a record carries companyDetails only if
\* it is a profile of its own company link, and in a result the call built
\* only if that record's fetch returned that profile.
C8_DetailsOnlyWhenEnriched ==
    /\ (args.kind = "searchJobs" /\ response.kind = "ok")
         => LET js == response.value.data.jobs
            IN  \A i \in 1..Len(js) :
                  /\ ~args.enrichCompanies => ~HasCompanyDetails(js[i])
                  /\ OwnProfile(js[i])
                  /\ (FreshResult("searchJobs") /\ HasCompanyDetails(js[i]))
                       => /\ tasks[i].state = "profile"
                          /\ tasks[i].value = js[i].companyDetails
    /\ (args.kind = "getJobDetails" /\ response.kind = "ok")
         => /\ ~args.enrichCompany => ~HasCompanyDetails(response.value)
            /\ OwnProfile(response.value)
            /\ (FreshResult("getJobDetails") /\ HasCompanyDetails(response.value))
                 => /\ tasks[1].state = "profile"
                    /\ tasks[1].value = response.value.companyDetails

\* C8 witness: getJobDetails with enrichCompany false and estimateSalary
\* true fetched the company profile and returned without companyDetails.
C8_Witness ==
    /\ FreshResult("getJobDetails")
    /\ ~args.enrichCompany
    /\ args.estimateSalary
    /\ tasks[1].state = "profile"
    /\ ~HasCompanyDetails(response.value)

\* The entries under 'company:' keys.
CompanyEntries(c) == [key \in {k \in DOMAIN c : IsCompanyKey(k)} |-> c[key]]

C9_EntriesWorthy ==
    /\ \A key \in DOMAIN cache :
         IsCompanyKey(key)
            => (cache[key].about # NULL \/ cache[key].employeeCount # NULL)
    /\ \A i \in DOMAIN tasks :
         (tasks[i].state = "profile"
            /\ tasks[i].value.about = NULL
            /\ tasks[i].value.employeeCount = NULL)
            => /\ \A key \in DOMAIN cache : cache[key] # tasks[i].value
               /\ (args.kind = "company" /\ pc = "idle")
                    => response = Ok([success |-> TRUE, data |-> tasks[i].value])

C9_FailureWritesNothing ==
    (\E i \in DOMAIN tasks :
        /\ tasks[i].state = "fetching"
        /\ i \in DOMAIN tasks'
        /\ tasks'[i].state = "failed")
        => CompanyEntries(cache') = CompanyEntries(cache)

\* C9: every entry under a 'company:' key has a non-null about or a
\* non-null employeeCount; a fetched profile with neither is in no cache
\* entry and is still handed to the caller as an object; and a company
\* fetch that throws yields null and leaves the 'company:' entries as they
\* were.
C9_CacheWorthiness == []C9_EntriesWorthy /\ [][C9_FailureWritesNothing]_vars

\* C9 witness: the company route returned a profile with neither about nor
\* employeeCount, and no entry exists under its key.
C9_Witness ==
    /\ args.kind = "company"
    /\ response.kind = "ok"
    /\ response.value.data.about = NULL
    /\ response.value.data.employeeCount = NULL
    /\ companyKey(args.companyUrl) \notin DOMAIN cache

\* ------------------------------------------------------------------------
\* Properties of extractSalary (checked under SpecSalary)
\* ------------------------------------------------------------------------

\* The text holds a dollar sign followed by a digit or a comma: the least
\* the dollar-range pattern needs to match.
MatchesDollar(t) ==
    \E i \in 1..(Len(t) - 1) : t[i] = "$" /\ IsAmountChar(t[i + 1])

\* The value read from a record's key: null when the key is not there.
Field(record, key) == IF key \in DOMAIN record THEN record[key] ELSE NULL

\* The record the claim describes for a text outside the pattern.
IsTextOnlySalary(record, text) ==
    /\ record # NullObject
    /\ record.text = text
    /\ record.estimated = FALSE
    /\ record.source = "LinkedIn Job Posting"
    /\ Field(record, "min") = NULL
    /\ Field(record, "max") = NULL

\* C14 as stated: extractSalary returns null when the page has no salary
\* element, and for every salary element whose text does not match the
\* dollar-range pattern it returns the text-only record (text, estimated
\* false, the posting as source, no min and no max), so that null means
\* "no element".
C14_AbsentVsUnparseable ==
    extractor = "extractSalary" =>
        /\ document = NULL => extracted = NullObject
        /\ (document # NULL /\ ~MatchesDollar(document))
               => IsTextOnlySalary(extracted, trim(document))

\* C14 as amended: extractSalary returns null when the page has no salary
\* element and also when the element's text is empty or whitespace only;
\* for a non-blank text that does not match the dollar-range pattern it
\* returns exactly the keys text (the trimmed text), estimated = false and
\* source = "LinkedIn Job Posting", with no min and no max key.
C14_AbsentOrBlankVsUnparseable ==
    extractor = "extractSalary" =>
        /\ (document = NULL \/ trim(document) = <<>>) => extracted = NullObject
        /\ (document # NULL /\ trim(document) # <<>> /\ ~MatchesDollar(document))
               => /\ extracted = [ text |-> trim(document),
                                   estimated |-> FALSE,
                                   source |-> "LinkedIn Job Posting" ]
                  /\ IsTextOnlySalary(extracted, trim(document))

\* A text with surrounding whitespace and no dollar amount was extracted.
C14_Witness ==
    /\ extractor = "extractSalary"
    /\ document # NULL
    /\ document # trim(document)
    /\ ~MatchesDollar(document)
    /\ extracted # NullObject
    /\ extracted.text = <<"N">>

\* A string of digits, and one of digits and points.
IsNumeral(s) == \A k \in 1..Len(s) : IsDigit(s[k]) \/ s[k] = "."

\* The whole of s is an amount: digits and commas, then possibly a point
\* and two digits.
IsAmount(s) ==
    \/ Len(s) >= 1 /\ \A k \in 1..Len(s) : IsAmountChar(s[k])
    \/ /\ Len(s) >= 4
       /\ \A k \in 1..(Len(s) - 3) : IsAmountChar(s[k])
       /\ s[Len(s) - 2] = "."
       /\ IsDigit(s[Len(s) - 1])
       /\ IsDigit(s[Len(s)])

AllWhitespace(t, from, to) == \A k \in from..to : t[k] \in Whitespace

\* The first dollar amount of the text is followed, whitespace apart, by a
\* dash and a second dollar amount.
SecondAmountFollows(t) ==
    \E a \in 1..Len(t) :
      /\ t[a] = "$"
      /\ \A i \in 1..(a - 1) : ~(t[i] = "$" /\ IsAmountChar(t[i + 1]))
      /\ \E b \in (a + 1)..Len(t) :
           /\ IsAmount(SubSeq(t, a + 1, b))
           /\ \E c \in (b + 1)..Len(t) :
                /\ t[c] = "-"
                /\ AllWhitespace(t, b + 1, c - 1)
                /\ \E d \in (c + 1)..(Len(t) - 1) :
                     /\ t[d] = "$"
                     /\ AllWhitespace(t, c + 1, d - 1)
                     /\ IsAmountChar(t[d + 1])

\* extractSalary ran on a text that matches the dollar-range pattern.
SalaryMatched ==
    /\ extractor = "extractSalary"
    /\ document # NULL
    /\ MatchesDollar(document)

\* C15 as stated: for every salary text that matches the dollar-range
\* pattern, min and max are each null or a string of digits only, and max
\* is null exactly when no second '- $amount' part follows the first
\* amount.
C15_DigitsOnly ==
    SalaryMatched =>
        /\ extracted.min = NULL \/ IsDigitString(extracted.min) \/ extracted.min = <<>>
        /\ extracted.max = NULL \/ IsDigitString(extracted.max) \/ extracted.max = <<>>
        /\ extracted.max = NULL <=> ~SecondAmountFollows(document)

\* C15 as amended: for every salary text that matches the dollar-range
\* pattern, min is a string and max is null or a string, each of digits and
\* decimal points only (the dollar sign and the commas are removed, the
\* point of a '.dd' part is kept), and max is null exactly when the first
\* dollar amount is not followed, whitespace apart, by a dash and a second
\* dollar amount.
C15_DigitsAndPoints ==
    SalaryMatched =>
        /\ extracted.min # NULL /\ IsNumeral(extracted.min)
        /\ extracted.max = NULL \/ IsNumeral(extracted.max)
        /\ extracted.max = NULL <=> ~SecondAmountFollows(document)
        /\ extracted.currency = "USD"

\* A range with a thousands separator and a decimal part was extracted.
C15_Witness ==
    /\ SalaryMatched
    /\ document = <<"$", "1", ",", "0", "-", "$", "5", ".", "5", "0">>
    /\ extracted.min = <<"1", "0">>
    /\ extracted.max = <<"5", ".", "5", "0">>

\* ------------------------------------------------------------------------
\* Properties of extractSpecialties (checked under SpecSpecialties)
\* ------------------------------------------------------------------------

\* A non-empty list of non-empty trimmed strings.
IsSpecialtiesList(value) ==
    /\ value # NullObject
    /\ Len(value.array) > 0
    /\ \A k \in 1..Len(value.array) :
           value.array[k] # <<>> /\ trim(value.array[k]) = value.array[k]

\* Every comma-separated entry of the text is empty or whitespace.
OnlyBlankEntries(text) == \A k \in 1..Len(text) : text[k] \in Whitespace \cup {","}

\* C16: the specialties extracted from a company page are null or a
\* non-empty list of non-empty trimmed strings; a Specialties entry whose
\* comma-separated pieces are all empty or whitespace yields null, never an
\* empty list.
C16_SpecialtiesEmptyCollapse ==
    extractor = "extractSpecialties" =>
        /\ extracted = NullObject \/ IsSpecialtiesList(extracted)
        /\ (document # NULL /\ OnlyBlankEntries(document)) => extracted = NullObject

\* ------------------------------------------------------------------------
\* Properties of extractCompanyAbout (checked under SpecAbout)
\* ------------------------------------------------------------------------

\* The sources of the about text in the order they are consulted: the
\* about-us section, then the alternates.
AboutSources(about) == <<about.section>> \o about.alternates

\* The sources that yield non-empty text.
YieldingSources(about) ==
    {k \in 1..Len(AboutSources(about)) :
        AboutSources(about)[k] # NULL /\ trim(AboutSources(about)[k]) # <<>>}

\* C17: extractCompanyAbout returns the text of the first source, in the
\* order about-us section then alternate selectors, that yields non-empty
\* text, and null only when none does; an about-us section that is
\* present but empty does not keep a later selector with text from
\* winning.
C17_AboutFallbackChain ==
    extractor = "extractCompanyAbout" =>
        IF YieldingSources(document) = {}
        THEN extracted = NULL
        ELSE extracted = trim(AboutSources(document)[SetMin(YieldingSources(document))])

\* ------------------------------------------------------------------------
\* Properties of htmlToPlainText (checked under SpecHtml)
\* ------------------------------------------------------------------------

\* The text holds letters and whitespace only: nothing the clutter
\* patterns remove.
IsPlainText(text) ==
    \A k \in 1..Len(text) : text[k] \in {"a", "b"} \cup Whitespace

\* The lines of the text that are not empty, each trimmed and with its
\* runs of spaces and tabs collapsed.
SurvivingLines(text) ==
    LET lines == filterBoolean(trimEach(split(text, "\n")))
    IN  [k \in 1..Len(lines) |-> replaceRuns(lines[k], {" ", "\t"}, <<" ">>)]

\* C18: when the text content of the fragment spans several non-empty
\* lines, the result holds each of these lines as a paragraph of its own,
\* without the empty lines, with exactly one blank line between
\* consecutive paragraphs.
C18_ParagraphResegmentation ==
    ( /\ extractor = "htmlToPlainText"
      /\ document # NULL
      /\ IsPlainText(textContent(document))
      /\ Len(SurvivingLines(textContent(document))) >= 2 )
        => extracted = join(SurvivingLines(textContent(document)), <<"\n", "\n">>)

\* The two lines a and b came out as the one line "a b".
C18_LinesMerged ==
    /\ extractor = "htmlToPlainText"
    /\ document = <<"a", "\n", "b">>
    /\ extracted = <<"a", " ", "b">>

\* C19: for every html with a non-null result t, htmlToPlainText of t
\* wrapped in a <p> element returns t again: the second pass removes
\* nothing and adds nothing, also when t holds a token such as "Promoted"
\* that the first pass formed by removing a token inside it.
C19_ReextractionStable ==
    extractor = "htmlToPlainText again" => extracted = textContent(document)

\* "Promoted", left by the first pass, was removed by the second.
C19_PromotedRemoved ==
    /\ extractor = "htmlToPlainText again"
    /\ document = <<"<p>">> \o Promoted \o <<"</p>">>
    /\ extracted = NULL

\* ------------------------------------------------------------------------
\* Properties of the description of a job (checked under Spec)
\* ------------------------------------------------------------------------

\* getJobDetails has fetched the job page and converted its description.
DescriptionConverted == args.kind = "getJobDetails" /\ extractor # "init"

\* C20: htmlToPlainText returns null for null or empty html and null when
\* its try block throws, and getJobDetails then still returns its record:
\* the identifier, the title, the salary and the links are built as for
\* any page, description is what the conversion returned and
\* descriptionLength is null with it, its length otherwise.
C20_SilentDegradation ==
    DescriptionConverted =>
        /\ (~Truthy(document) \/ extractor = "htmlToPlainText threw")
               => extracted = NULL
        /\ extracted = NULL \/ (extracted # <<>> /\ Truthy(document))
        /\ Len(jobs) = 1
        /\ jobs[1].description = extracted
        /\ IF extracted = NULL
           THEN jobs[1].descriptionLength = NULL
           ELSE jobs[1].descriptionLength = Len(extracted)
        /\ jobs[1].id = extractNumericId(args.jobId, NULL)
        /\ jobs[1].jobLink = jobUrl(jobs[1].id)
        /\ {"title", "salary", "companyLink"} \subseteq DOMAIN jobs[1]
        /\ pc = "idle" => response = Ok(jobs[1])

\* The conversion threw on a page with a description, and the request
\* returned the record of that page without it.
C20_Witness ==
    /\ DescriptionConverted
    /\ extractor = "htmlToPlainText threw"
    /\ Truthy(document)
    /\ pc = "idle"
    /\ response.kind = "ok"
    /\ response.value.title = Dev
    /\ response.value.description = NULL
    /\ response.value.descriptionLength = NULL

\* ------------------------------------------------------------------------
\* Properties of cleanText (checked under SpecCleanText)
\* ------------------------------------------------------------------------

\* The positions of s that hold no whitespace, and the k-th of them.
InkPositions(s) == {i \in 1..Len(s) : s[i] \notin Whitespace}

InkPosition(s, k) ==
    CHOOSE p \in InkPositions(s) :
        Cardinality({q \in InkPositions(s) : q < p}) = k - 1

\* t holds the characters of s that are no whitespace, in their order,
\* with whitespace between two of them exactly where s has some.
SameWords(s, t) ==
    /\ Cardinality(InkPositions(s)) = Cardinality(InkPositions(t))
    /\ \A k \in 1..Cardinality(InkPositions(s)) :
           /\ s[InkPosition(s, k)] = t[InkPosition(t, k)]
           /\ k > 1 => ( (InkPosition(s, k) - InkPosition(s, k - 1) > 1)
                           <=> (InkPosition(t, k) - InkPosition(t, k - 1) > 1) )

\* Non-empty, no whitespace at either end, every whitespace a single
\* space between two other characters.
IsCleanText(t) ==
    /\ t # NULL
    /\ Len(t) > 0
    /\ t[1] \notin Whitespace
    /\ t[Len(t)] \notin Whitespace
    /\ \A i \in 1..Len(t) : t[i] \in Whitespace => t[i] = " "
    /\ \A i \in 1..(Len(t) - 1) : ~(t[i] \in Whitespace /\ t[i + 1] \in Whitespace)

\* C21: cleanText returns null for null, for a value that is no string,
\* for the empty string and for whitespace only; otherwise it returns the
\* text trimmed with every inner whitespace run turned into one space, so
\* a non-null result is non-empty, has no whitespace at its ends and no two
\* adjacent whitespace characters; cleanText of its own non-null result is
\* that result.
C21_CleanTextTotal ==
    /\ extractor = "cleanText" =>
         IF document = NULL \/ document \in NonStrings \/ InkPositions(document) = {}
         THEN extracted = NULL
         ELSE IsCleanText(extracted) /\ SameWords(document, extracted)
    /\ extractor = "cleanText again" => extracted = document

\* A text with leading whitespace and an inner run of tab and newline was
\* cleaned.
C21_Witness ==
    /\ extractor = "cleanText"
    /\ document = <<" ", "a", "\t", "\n", "b">>
    /\ extracted = <<"a", " ", "b">>

\* ------------------------------------------------------------------------
\* Properties of the skills of a job (checked under SpecSkills)
\* ------------------------------------------------------------------------

\* The pills whose text is more than whitespace.
PillsWithText(pills) == {k \in 1..Len(pills) : trim(pills[k]) # <<>>}

\* C22: the skills field of a job-detail record is null or a non-empty
\* list of non-empty strings, one per pill that yields text; it is null,
\* never an empty list, when no pill yields text.
C22_SkillsNullOrNonEmpty ==
    extractor = "extractSkills" =>
        IF PillsWithText(document) = {}
        THEN extracted = NullObject
        ELSE /\ extracted # NullObject
             /\ Len(extracted.array) = Cardinality(PillsWithText(document))
             /\ \A k \in 1..Len(extracted.array) :
                    /\ extracted.array[k] # <<>>
                    /\ \E j \in PillsWithText(document) :
                           extracted.array[k] = trim(document[j])

\* Pills without text gave null.
C22_Witness ==
    /\ extractor = "extractSkills"
    /\ Len(document) = 2
    /\ PillsWithText(document) = {}
    /\ extracted = NullObject

\* ------------------------------------------------------------------------
\* Properties of the rate limiter (checked under SpecLimiter)
\* ------------------------------------------------------------------------

\* How many of the times lie in from..to.
CountIn(times, from, to) ==
    Cardinality({i \in 1..Len(times) : from <= times[i] /\ times[i] <= to})

\* C23 as stated: for every client key the rate limiter passes on at most
\* RATE_LIMIT_MAX requests within any period of RATE_LIMIT_WINDOW, and a
\* request answered with 429 finds the key at its limit.
C23_AtMostMaxInAnyPeriod ==
    /\ \A key \in DOMAIN passed :
         \A t \in 0..MaxTime :
           CountIn(passed[key], t, t + RATE_LIMIT_WINDOW - 1) <= RATE_LIMIT_MAX
    /\ answer.status = "429"
         => apiKeyRateLimit[answer.key].count = RATE_LIMIT_MAX

\* The requests of a key passed on since its window began are the ones
\* its entry counts, at most RATE_LIMIT_MAX; any period of
\* RATE_LIMIT_WINDOW meets at most two windows.
FixedWindowLimit ==
    \A key \in DOMAIN apiKeyRateLimit :
        LET limitInfo == apiKeyRateLimit[key]
        IN  /\ limitInfo.count <= RATE_LIMIT_MAX
            /\ CountIn(passedOf(key), limitInfo.resetTime - RATE_LIMIT_WINDOW,
                       limitInfo.resetTime) = limitInfo.count
            /\ CountIn(passedOf(key), limitInfo.resetTime + 1, MaxTime) = 0
            /\ \A t \in 0..MaxTime :
                 CountIn(passedOf(key), t, t + RATE_LIMIT_WINDOW - 1)
                     <= 2 * RATE_LIMIT_MAX

\* A request answered with 429 is not passed on, and its key is at the
\* limit.
RejectedNotPassed ==
    (now' = now /\ answer'.status = "429")
        => /\ passed' = passed
           /\ answer'.key \in DOMAIN apiKeyRateLimit'
           /\ apiKeyRateLimit'[answer'.key].count = RATE_LIMIT_MAX

\* C23 as amended: for every client key the rate limiter passes on at most
\* RATE_LIMIT_MAX requests in each of the key's windows (a window begins
\* with the first request after the previous one has run out and lasts
\* RATE_LIMIT_WINDOW), hence at most twice RATE_LIMIT_MAX within any
\* period of RATE_LIMIT_WINDOW; a request beyond the limit is answered
\* with 429 and is not passed on.
C23_AtMostMaxPerWindow == []FixedWindowLimit /\ [][RejectedNotPassed]_vars

\* A request was answered with 429 although more than RATE_LIMIT_MAX
\* requests of its key were passed on within the last RATE_LIMIT_WINDOW.
C23_Witness ==
    /\ answer.status = "429"
    /\ CountIn(passedOf(answer.key), now - RATE_LIMIT_WINDOW + 1, now)
           > RATE_LIMIT_MAX

\* The count a request of key is tested against: 0 for a new key and
\* after a reset.
CountTested(key) ==
    IF key \notin DOMAIN apiKeyRateLimit THEN 0
    ELSE IF now > apiKeyRateLimit[key].resetTime THEN 0
    ELSE apiKeyRateLimit[key].count

\* The window a request of key is counted in.
ResetTimeTested(key) ==
    IF key \notin DOMAIN apiKeyRateLimit THEN now + RATE_LIMIT_WINDOW
    ELSE IF now > apiKeyRateLimit[key].resetTime THEN now + RATE_LIMIT_WINDOW
    ELSE apiKeyRateLimit[key].resetTime

\* Every stored count is between 0 and RATE_LIMIT_MAX.
CountsInRange ==
    \A key \in DOMAIN apiKeyRateLimit :
        apiKeyRateLimit[key].count \in 0..RATE_LIMIT_MAX

\* What one request does to the entries.
RequestStep ==
    (now' = now /\ lvars' # lvars)
        => LET key == answer'.key
           IN  /\ answer'.status \in {"next", "429"}
               /\ answer'.status = "next" <=> CountTested(key) < RATE_LIMIT_MAX
               /\ answer'.status = "next"
                    => /\ apiKeyRateLimit'[key] =
                              [count |-> CountTested(key) + 1,
                               resetTime |-> ResetTimeTested(key)]
                       /\ passed'[key] = Append(passedOf(key), now)
               /\ answer'.status = "429"
                    => /\ key \in DOMAIN apiKeyRateLimit
                       /\ apiKeyRateLimit'[key] = apiKeyRateLimit[key]
                       /\ passed' = passed
               /\ DOMAIN apiKeyRateLimit' = DOMAIN apiKeyRateLimit \cup {key}
               /\ \A other \in DOMAIN apiKeyRateLimit \ {key} :
                      /\ apiKeyRateLimit'[other] = apiKeyRateLimit[other]
                      /\ passedOf(other) = IF other \in DOMAIN passed'
                                           THEN passed'[other] ELSE <<>>
               /\ (key \in DOMAIN apiKeyRateLimit
                     /\ now > apiKeyRateLimit[key].resetTime)
                    => /\ answer'.status = "next"
                       /\ apiKeyRateLimit'[key].count = 1

\* The clock leaves the entries alone.
ClockStep == now' # now => apiKeyRateLimit' = apiKeyRateLimit

\* C29: per client key, over any sequence of requests and clock steps: the
\* stored count stays between 0 and RATE_LIMIT_MAX; a request is admitted
\* exactly when the count, after a reset if the time is past resetTime,
\* is below RATE_LIMIT_MAX, and only an admitted request increments it; a
\* rejected request changes neither count nor resetTime; no request
\* changes the entry of another key; once the time is past resetTime the
\* key's next request resets the count and is admitted.
C29_CounterInvariants ==
    []CountsInRange /\ [][RequestStep /\ ClockStep]_vars

\* After a full window ran out, the key's next request was admitted on a
\* count reset, while another key has an entry.
C29_Witness ==
    /\ answer.status = "next"
    /\ apiKeyRateLimit[answer.key].count = 1
    /\ Len(passedOf(answer.key)) = RATE_LIMIT_MAX + 1
    /\ Cardinality(DOMAIN apiKeyRateLimit) = 2

\* ------------------------------------------------------------------------
\* Properties of the salary field (checked under SpecFinalSalary)
\* ------------------------------------------------------------------------

\* C24: in getJobDetails the salary field is the posted SalaryInfo whenever
\* extractSalary returns one, also when an estimate is asked for; it is the
\* estimator's salary object exactly when estimateSalary is true,
\* extractSalary returned null and the raw title is not empty; in every
\* other case it is null.
C24_PostedSalaryFirst ==
    extractor = "finalSalary"
        => LET salaryInfo == extractSalary(document.page.salary)
               estimating == /\ document.estimateSalary
                             /\ salaryInfo = NullObject
                             /\ Len(document.page.title) > 0
           IN  /\ salaryInfo # NullObject => extracted = salaryInfo
               /\ extracted = estimatedSalary <=> estimating
               /\ (salaryInfo = NullObject /\ ~estimating)
                     => extracted = NullObject

\* An estimate was asked for a titled job whose page posts a salary: the
\* posted one is returned.
C24_Witness ==
    /\ extractor = "finalSalary"
    /\ document.estimateSalary
    /\ Len(document.page.title) > 0
    /\ extracted # NullObject
    /\ extracted # estimatedSalary

\* ------------------------------------------------------------------------
\* Properties of fetchWithRetry (checked under SpecFetchLive)
\* ------------------------------------------------------------------------

\* Positions of the log with the event.
EventsOf(event) == {p \in 1..Len(log) : log[p].event = event}

\* The call has returned or thrown.
FetchSettled == fetchPc \in {"returned", "thrown"}

\* Attempts are numbered in order and at most retries are made; the
\* default is three.
AtMostRetriesAttempts ==
    /\ Cardinality(EventsOf("request")) <= retries
    /\ retries = MAX_RETRIES => Cardinality(EventsOf("request")) <= 3
    /\ \A p \in EventsOf("request") :
         log[p].attempt = Cardinality({q \in EventsOf("request") : q < p})

\* An attempt after the first follows the failure of the one before and
\* the wait after it; nothing is in flight meanwhile.
RetryAfterFailureAndWait ==
    \A p \in EventsOf("request") :
        log[p].attempt > 0
            => /\ p > 3
               /\ log[p - 1].event = "waited"
               /\ log[p - 1].ms = 1000 * log[p].attempt
               /\ log[p - 2].event = "error"
               /\ log[p - 2].attempt = log[p].attempt - 1
               /\ log[p - 3].event = "request"
               /\ log[p - 3].attempt = log[p].attempt - 1

\* The first success ends the call with its response.
ReturnsFirstSuccess ==
    /\ \A p \in EventsOf("response") :
         /\ p = Len(log)
         /\ fetchPc = "returned"
         /\ log[p - 1] = [log[p] EXCEPT !.event = "request"]
         /\ Cardinality(EventsOf("error")) = log[p].attempt
    /\ fetchPc = "returned" => EventsOf("response") # {}

\* When every attempt failed the error of the last one is thrown, with
\* no wait after it.
ThrowsLastError ==
    /\ fetchPc = "thrown"
         <=> (Cardinality(EventsOf("error")) = retries /\ FetchSettled)
    /\ fetchPc = "thrown"
         => /\ log[Len(log)].event = "throw"
            /\ log[Len(log) - 1] =
                   Event("error", retries - 1, log[Len(log)].error, 0)
            /\ Cardinality(EventsOf("waited")) = retries - 1
    /\ Cardinality(EventsOf("error")) <= retries

RetryDiscipline ==
    retries >= 1
        => /\ AtMostRetriesAttempts
           /\ RetryAfterFailureAndWait
           /\ ReturnsFirstSuccess
           /\ ThrowsLastError

\* C25: fetchWithRetry(url, n) with n >= 1 makes at most n attempts, one
\* after another; it returns the response of the first attempt that
\* succeeds and makes no attempt after it; an attempt after the first
\* starts only when the one before has failed and its back-off wait is
\* over; when all n attempts fail it throws the error of the n-th attempt
\* without waiting again; with the default n = MAX_RETRIES that is at most
\* 3 attempts; and every call returns or throws.
C25_RetryDiscipline ==
    /\ []RetryDiscipline
    /\ (fetchPc # "idle") ~> FetchSettled

\* A default call threw after three failed attempts, the last error being
\* another one than the first.
C25_Witness ==
    /\ fetchPc = "thrown"
    /\ retries = MAX_RETRIES
    /\ Cardinality(EventsOf("error")) = 3
    /\ log[Len(log)].error # log[2].error

\* ------------------------------------------------------------------------
\* Properties of the result cache (checked under Spec)
\* ------------------------------------------------------------------------

\* The cache key of a searchJobs or getJobDetails call.
callKey(a) ==
    IF a.kind = "searchJobs"
    THEN <<"j", "o", "b", "s", ":">> \o a.keywords \o <<":">> \o a.location
             \o <<":">> \o boolText(a.remote) \o <<":">> \o boolText(a.enrichCompanies)
    ELSE <<"j", "o", "b", ":">> \o extractNumericId(a.jobId, NULL) \o <<":">>
             \o boolText(a.enrichCompany) \o <<":">> \o boolText(a.estimateSalary)

\* The calls a client may make that have a cache key.
KeyedCalls ==
    { [kind |-> "searchJobs", keywords |-> Dev, location |-> location,
       remote |-> remote, enrichCompanies |-> enrichCompanies] :
          location \in Locations, remote \in Remotes, enrichCompanies \in BOOLEAN }
    \cup
    { [kind |-> "getJobDetails", jobId |-> jobId,
       enrichCompany |-> enrichCompany, estimateSalary |-> estimateSalary] :
          jobId \in {j \in JobIds : Truthy(extractNumericId(j, NULL))},
          enrichCompany \in BOOLEAN, estimateSalary \in BOOLEAN }

\* The flags of a call.
flagsOf(a) ==
    IF a.kind = "searchJobs" THEN <<a.remote, a.enrichCompanies>>
    ELSE <<a.enrichCompany, a.estimateSalary>>

\* A returned object without its cacheHit mark.
withoutCacheHit(value) == [f \in DOMAIN value \ {"cacheHit"} |-> value[f]]

\* A searchJobs or getJobDetails call with a cache key is made.
KeyedCallStep ==
    /\ pc = "idle"
    /\ calls' = calls + 1
    /\ args' \in KeyedCalls

\* Calls that differ in a flag have different keys; getJobDetails calls
\* with the same flags whose inputs resolve to the same id have the same
\* key.
KeysByIdAndFlags ==
    \A a \in KeyedCalls, b \in KeyedCalls :
        /\ (a.kind = b.kind /\ flagsOf(a) # flagsOf(b)) => callKey(a) # callKey(b)
        /\ (a.kind = "getJobDetails" /\ b.kind = "getJobDetails"
              /\ flagsOf(a) = flagsOf(b)
              /\ extractNumericId(a.jobId, NULL) = extractNumericId(b.jobId, NULL))
             => callKey(a) = callKey(b)

\* A call whose key has an entry that has not run out starts no fetch and
\* returns the entry, marked as a cache hit.
HitShortCircuit ==
    (KeyedCallStep /\ callKey(args') \in DOMAIN cache')
        => /\ pc' = "idle"
           /\ response'.kind = "ok"
           /\ response'.value.cacheHit
           /\ withoutCacheHit(response'.value) = cache[callKey(args')]

\* A call that completes after its fetch returns what it stores under
\* its key.
ReturnedIsStored ==
    (pc # "idle" /\ pc' = "idle" /\ args' \in KeyedCalls /\ response'.kind = "ok")
        => /\ callKey(args') \in DOMAIN cache'
           /\ cache'[callKey(args')] = response'.value

\* An entry of a search or a job stays as it is while it is there.
ResultEntriesKept ==
    \A k \in DOMAIN cache \cap DOMAIN cache' :
        ~startsWith(k, <<"c", "o", "m", "p", "a", "n", "y", ":">>)
            => cache'[k] = cache[k]

FetchFailed ==
    /\ pc = "idle"
    /\ args \in KeyedCalls
    /\ response.kind = "error"

\* The message of a failed call starts with the words of its function.
FailedMessage ==
    FetchFailed
        => \E error \in AxiosErrors :
             response.message =
                 (IF args.kind = "searchJobs" THEN "Failed to fetch jobs: "
                  ELSE "Failed to fetch job details: ") \o error

\* The failing step writes nothing.
FailureWritesNothing ==
    (pc = "fetchWithRetry" /\ pc' = "idle" /\ response'.kind = "error")
        => /\ cache' = cache
           /\ callKey(args') \notin DOMAIN cache'

\* The same call made again right after the failure fetches again.
FailureNotCached ==
    (FetchFailed /\ KeyedCallStep /\ args' = args)
        => /\ pc' = "fetchWithRetry"
           /\ response' = NoResponse

\* C27: when the fetch of searchJobs or getJobDetails fails after its
\* retries, the call throws an error whose message starts with 'Failed to
\* fetch jobs: ' or 'Failed to fetch job details: ', the cache is left as
\* it was with no entry under the call's key, and the same call made again
\* fetches again.
C27_FailureLeavesCache ==
    /\ [](FailedMessage /\ (FetchFailed => callKey(args) \notin DOMAIN cache))
    /\ [][FailureWritesNothing /\ FailureNotCached]_vars

\* A call failed in its fetch while the cache held the result of an
\* earlier call, and holds nothing under the failed call's key.
C27_Witness ==
    /\ FetchFailed
    /\ calls = 2
    /\ cache # <<>>
    /\ callKey(args) \notin DOMAIN cache

\* ------------------------------------------------------------------------
\* Properties of the result list (checked under SpecListing)
\* ------------------------------------------------------------------------

\* The cards of the page that give a record, in document order:
\* job-search cards whose title and company have text.
AcceptedCards ==
    SelectSeq(document.page,
              LAMBDA card : /\ card.jobSearchCard
                            /\ trim(card.title) # <<>>
                            /\ trim(card.company) # <<>>)

\* C28: searchJobs returns at most DEFAULT_RESULTS (50) jobs, the first 50
\* accepted listing cards in document order; data.jobsReturned is the
\* length of data.jobs; the list is cut before the enrichment, which so
\* starts at most 50 company-profile fetches.
C28_FixedTopN ==
    extractor = "searchJobs"
        => LET data == extracted.result.data
               started == {i \in DOMAIN extracted.tasks :
                              extracted.tasks[i].state = "fetching"}
           IN  /\ Len(data.jobs) <= 50
               /\ Len(data.jobs) = IF Len(AcceptedCards) < 50
                                    THEN Len(AcceptedCards) ELSE 50
               /\ \A i \in 1..Len(data.jobs) :
                     data.jobs[i].id = AcceptedCards[i].dataId
               /\ data.jobsReturned = Len(data.jobs)
               /\ Len(extracted.tasks) <= 50
               /\ Cardinality(started) <= 50

\* A page with more than 50 accepted cards after a blank one was cut to
\* 50 records, and their company fetches were started.
C28_Witness ==
    /\ extractor = "searchJobs"
    /\ Len(AcceptedCards) > 50
    /\ Len(AcceptedCards) < Len(document.page)
    /\ Len(extracted.result.data.jobs) = 50
    /\ \E i \in DOMAIN extracted.tasks : extracted.tasks[i].state = "fetching"

\* ------------------------------------------------------------------------
\* Properties of the enrichment of a search (checked under Spec)
\* ------------------------------------------------------------------------

\* A search is waiting for its company fetches.
EnrichingSearch == pc = "fetchCompanyProfile" /\ args.kind = "searchJobs"

\* A record as it was before the enrichment.
withoutCompanyDetails(job) ==
    [f \in DOMAIN job \ {"companyDetails"} |-> job[f]]

\* The list the enrichment starts from is the list parsed from the page.
EnrichmentStartsFromParsed ==
    (pc = "fetchWithRetry" /\ args.kind = "searchJobs"
       /\ pc' # "fetchWithRetry" /\ response'.kind # "error")
        => \E listing \in Listings :
             /\ listing.page = site'
             /\ Len(jobs') = Len(listing.jobs)
             /\ \A i \in 1..Len(jobs') :
                  withoutCompanyDetails(jobs'[i]) = listing.jobs[i]

\* The completion of a company fetch keeps every record at its place;
\* it changes at most the record the fetch was started for, by the
\* profile fetched from that record's company link.
EnrichmentKeepsList ==
    EnrichingSearch
        => /\ Len(jobs') = Len(jobs)
           /\ \A i \in 1..Len(jobs) :
                /\ withoutCompanyDetails(jobs'[i]) = withoutCompanyDetails(jobs[i])
                /\ jobs'[i] # jobs[i]
                     => /\ tasks[i].state = "fetching"
                        /\ tasks[i].url = jobs[i].companyLink
                        /\ tasks'[i].state = "profile"
                        /\ jobs'[i].companyDetails = tasks'[i].value
                        /\ jobs'[i].companyDetails.linkedinUrl
                               = fullUrl(jobs[i].companyLink)

\* The result is stored and returned by the step that settles the last
\* fetch, and not before.
StoredWhenAllSettled ==
    EnrichingSearch
        => IF \E i \in DOMAIN tasks' : tasks'[i].state = "fetching"
           THEN /\ pc' = "fetchCompanyProfile"
                /\ response' = NoResponse
                /\ callKey(args') \notin DOMAIN cache'
           ELSE /\ pc' = "idle"
                /\ response'.kind = "ok"
                /\ response'.value.data.jobs = jobs'
                /\ cache'[callKey(args')] = response'.value

\* While fetches are pending the search has one fetch slot per record
\* and no entry in the cache.
NothingStoredWhilePending ==
    EnrichingSearch
        => /\ Len(tasks) = Len(jobs)
           /\ \E i \in DOMAIN tasks : tasks[i].state = "fetching"
           /\ callKey(args) \notin DOMAIN cache

\* C30: in whatever order the concurrent company fetches of a search
\* complete, the jobs list searchJobs returns has the same jobs in the
\* same order as before the enrichment, the companyDetails of a job comes
\* from the fetch of that job's own companyLink, and the result is written
\* to the cache only when all fetches of the search have settled.
C30_EnrichmentPreservesList ==
    /\ []NothingStoredWhilePending
    /\ [][EnrichmentStartsFromParsed /\ EnrichmentKeepsList
            /\ StoredWhenAllSettled]_vars

\* The fetch of the second record has completed before that of the first:
\* the second record has its companyDetails, the first is still waiting.
C30_Witness ==
    /\ EnrichingSearch
    /\ Len(jobs) = 2
    /\ tasks[1].state = "fetching"
    /\ tasks[2].state = "profile"
    /\ "companyDetails" \in DOMAIN jobs[2]
    /\ "companyDetails" \notin DOMAIN jobs[1]
    /\ callKey(args) \notin DOMAIN cache

====
